---------------------------- MODULE Spec2Model ----------------------------
(***************************************************************************)
(* A model of the backend's session store                                  *)
(* (backend/app/services/session_store.py), of its tag extractor           *)
(* (backend/app/services/xml_parser.py), of the wrapper of the generative  *)
(* client (backend/app/services/gemini.py) and of the request handlers     *)
(* (backend/app/routers).                                                  *)
(*                                                                         *)
(* Python objects that can be shared keep their identity: a message is a   *)
(* dict object in the heap `dicts`, a history is a list object in the heap *)
(* `lists` holding references to dicts, and a session holds a reference to *)
(* its list.  A value "as the caller sees it" is obtained by following the *)
(* references (ListValue, StoreValue).                                     *)
(*                                                                         *)
(* Session ids are integers: uuid4() is modelled as producing the next     *)
(* never-issued positive integer (uuid4 values are assumed unique and      *)
(* unguessable); the values a client can send that are no issued uuid are  *)
(* None, the empty string and one string that was never issued.            *)
(* Time is in minutes.                                                     *)
(***************************************************************************)
EXTENDS Integers, Sequences, FiniteSets, TLC

VARIABLES
    sessions,   \* SessionStore._sessions: id -> ConversationSession
    lists,      \* heap of list objects: reference -> sequence of dict references
    dicts,      \* heap of message dicts: reference -> [role, content]
    now,        \* what datetime.now() returns
    issued,     \* how many uuid4() values were generated
    held,       \* the value the latest get_or_create returned, kept by its caller
    ret,        \* the outcome of the latest operation
    log,        \* per live session: the add_message calls that took effect on it
    returned,   \* per live session: the history value its latest get_or_create returned
    steps,      \* number of steps taken
    locked,     \* SessionStore._lock: whether the asyncio.Lock is held
    pc,         \* per request handler: the statement of the store it is at
    call,       \* per request handler: the call it makes and that call's locals
    seq,        \* the store as the calls made so far leave it when run one after another
    xtext,      \* the model's response text, a sequence of characters
    xres,       \* what the parsing function called on xtext returned or raised
    service,    \* app.state.gemini_service: "ready" (a GeminiService) or None
    req         \* per request: where it is, what it sent upstream, how it ended

storeVars == <<sessions, lists, dicts, now, issued, held, ret, log, returned, steps>>

lockVars == <<locked, pc, call, seq>>

xmlVars == <<xtext, xres>>

httpVars == <<service, req>>

vars == <<storeVars, lockVars, xmlVars, httpVars>>

-----------------------------------------------------------------------------
(* Bounds of the model *)

MaxSteps == 6

MaxCalls == 3

MaxTokens == 5

-----------------------------------------------------------------------------
(* Values *)

TtlMinutes == 60

NoneId == 0

EmptyStr == -1

UnknownId == -2

NullRef == 0

Roles == {"user", "assistant"}

Contents == {"hi"}

Uuid(n) == n

ClientIds == {NoneId, EmptyStr, UnknownId} \cup 1..issued

Fresh(used) == CHOOSE n \in 1..(Cardinality(used) + 1) : n \notin used

Restrict(f, S) == [x \in S |-> f[x]]

IsPrefix(s, t) == Len(s) <= Len(t) /\ SubSeq(t, 1, Len(s)) = s

ListValue(L, D, lref) == [i \in 1..Len(L[lref]) |-> D[L[lref][i]]]

StoreValue(S, L, D) ==
    [sid \in DOMAIN S |->
        [messages |-> ListValue(L, D, S[sid].messages),
         created_at |-> S[sid].created_at,
         last_accessed |-> S[sid].last_accessed]]


-----------------------------------------------------------------------------
(* SessionStore: the statements of each operation *)

\* `session_id and session_id in self._sessions`: None and "" are falsy
Known(S, sid) == sid # NoneId /\ sid # EmptyStr /\ sid \in DOMAIN S

\* a plausible slip: the access is not recorded
TouchForgotten(session, t) == session

\* session.last_accessed = datetime.now()
Touch(session, t) == [session EXCEPT !.last_accessed = t]

\* a plausible slip: a mutable default, every session sharing one list object
NewSessionSharedList(lref, t) == [messages |-> 1, created_at |-> t, last_accessed |-> t]

\* ConversationSession(): an empty list of its own, both timestamps now
NewSession(lref, t) == [messages |-> lref, created_at |-> t, last_accessed |-> t]

\* a plausible slip: the supplied id is reused for the new session
NewIdReusesSupplied(sid, uuid) == IF sid = NoneId \/ sid = EmptyStr THEN uuid ELSE sid

\* new_id = str(uuid.uuid4())
NewId(sid, uuid) == uuid

\* session.messages.copy(): a new list object (holding the same dict objects)
CopyRef(lref, fresh) == fresh

\* a plausible slip: insert(0, ...) instead of append
AppendMsgAtFront(msgs, dref) == <<dref>> \o msgs

\* messages.append({...})
AppendMsg(msgs, dref) == Append(msgs, dref)

\* {"role": role, "content": content}
Message(role, content) == [role |-> role, content |-> content]

\* `session_id in self._sessions` of add_message
Present(S, sid) == sid \in DOMAIN S

\* a plausible slip: >= instead of >
ExpiredAtTtl(S, t) == {sid \in DOMAIN S : t - S[sid].last_accessed >= TtlMinutes}

\* [sid for sid, session in ... if now - session.last_accessed > self._ttl]
Expired(S, t) == {sid \in DOMAIN S : t - S[sid].last_accessed > TtlMinutes}

\* for sid in expired: del self._sessions[sid]
Remove(S, expired) == Restrict(S, DOMAIN S \ expired)

\* len(self._sessions)
SessionCount(S) == Cardinality(DOMAIN S)

(* The whole body of each operation, run under the lock: the new store and
   heaps, and what the operation returns. *)

\* a plausible slip: get_or_create drops the expired sessions first
GetOrCreateOpSweeping(S, L, D, sid, uuid, t) ==
    LET T == Remove(S, Expired(S, t))
    IN  IF Known(T, sid)
        THEN [S |-> [T EXCEPT ![sid] = Touch(T[sid], t)],
              L |-> (Fresh(DOMAIN L) :> L[T[sid].messages]) @@ L,
              D |-> D,
              id |-> sid,
              history |-> Fresh(DOMAIN L)]
        ELSE [S |-> (uuid :> NewSession(Fresh(DOMAIN L), t)) @@ T,
              L |-> (Fresh(DOMAIN L) :> <<>>) @@ (Fresh(DOMAIN L \cup {Fresh(DOMAIN L)}) :> <<>>) @@ L,
              D |-> D,
              id |-> uuid,
              history |-> Fresh(DOMAIN L \cup {Fresh(DOMAIN L)})]

GetOrCreateOp(S, L, D, sid, uuid, t) ==
    IF Known(S, sid)
    THEN LET h == CopyRef(S[sid].messages, Fresh(DOMAIN L))
         IN  [S |-> [S EXCEPT ![sid] = Touch(S[sid], t)],
              L |-> (h :> L[S[sid].messages]) @@ L,
              D |-> D,
              id |-> sid,
              history |-> h]
    ELSE LET new_id == NewId(sid, uuid)
             own == Fresh(DOMAIN L)
             h == Fresh(DOMAIN L \cup {own})
         IN  [S |-> (new_id :> NewSession(own, t)) @@ S,
              L |-> (own :> <<>>) @@ (h :> <<>>) @@ L,
              D |-> D,
              id |-> new_id,
              history |-> h]

\* a plausible slip: setdefault(session_id, ConversationSession()) before appending
AddMessageOpCreating(S, L, D, sid, role, content, t) ==
    LET own == IF sid \in DOMAIN S THEN S[sid].messages ELSE Fresh(DOMAIN L)
        d == Fresh(DOMAIN D)
        old == IF sid \in DOMAIN S THEN L[own] ELSE <<>>
        created == IF sid \in DOMAIN S THEN S[sid].created_at ELSE t
    IN  [S |-> (sid :> [messages |-> own, created_at |-> created, last_accessed |-> t]) @@ S,
         L |-> (own :> Append(old, d)) @@ L,
         D |-> (d :> Message(role, content)) @@ D]

AddMessageOp(S, L, D, sid, role, content, t) ==
    IF Present(S, sid)
    THEN LET d == Fresh(DOMAIN D)
         IN  [S |-> [S EXCEPT ![sid] = Touch(S[sid], t)],
              L |-> [L EXCEPT ![S[sid].messages] = AppendMsg(@, d)],
              D |-> (d :> Message(role, content)) @@ D]
    ELSE [S |-> S, L |-> L, D |-> D]

CleanupOp(S, t) ==
    LET expired == Expired(S, t)
    IN  [S |-> Remove(S, expired), count |-> Cardinality(expired)]

(* Reference counting: a list nobody refers to, and a dict in no list, is
   freed. *)
LiveLists(S, h) == {S[sid].messages : sid \in DOMAIN S} \cup ({h.history} \ {NullRef})

Collect(S, L, D, h) ==
    LET ll == LiveLists(S, h) \cap DOMAIN L
        dd == UNION {{L[l][i] : i \in 1..Len(L[l])} : l \in ll} \cap DOMAIN D
    IN  [L |-> Restrict(L, ll), D |-> Restrict(D, dd)]

-----------------------------------------------------------------------------
(* The store used through its operations, one call at a time *)

NoHeld == [id |-> NoneId, history |-> NullRef]

\* how long the session sid had been idle at time t, 0 when there is none
Idle(S, sid, t) == IF sid \in DOMAIN S THEN t - S[sid].last_accessed ELSE 0

Ret(op, sid, role, content, id, history, count, idle) ==
    [op |-> op, sid |-> sid, role |-> role, content |-> content,
     id |-> id, history |-> history, count |-> count, idle |-> idle]

Procs == {"h1", "h2"}

NoCall ==
    [op |-> "none", sid |-> NoneId, role |-> "", content |-> "",
     t |-> 0, new_id |-> NoneId, session |-> NullRef, expired |-> <<>>, n |-> 0,
     res |-> [error |-> "", id |-> NoneId, history |-> <<>>, count |-> 0],
     expect |-> [error |-> "", id |-> NoneId, history |-> <<>>, count |-> 0]]

InitLock ==
    /\ locked = FALSE
    /\ pc = [p \in Procs |-> "idle"]
    /\ call = [p \in Procs |-> NoCall]
    /\ seq = [S |-> <<>>, L |-> <<>>, D |-> <<>>]

NoException == [cause |-> "", message |-> <<>>, attached |-> {}]

NoResult == [fn |-> "none", tag |-> <<>>, outcome |-> "", type |-> "",
             content |-> <<>>, fields |-> <<>>, exc |-> NoException]

InitNoText ==
    /\ xtext = <<>>
    /\ xres = NoResult

Reqs == {"r1", "r2"}

NoOutcome == [raised |-> "", text |-> <<"None">>, images |-> <<>>, model |-> "", usage |-> "None"]

NoResponse ==
    [status |-> 0, detail |-> <<>>, text |-> <<"None">>, images |-> <<>>, model |-> "",
     type |-> "", session_id |-> NoneId, data |-> <<>>]

NoRequest ==
    [at |-> "idle", caller |-> "", op |-> "", args |-> <<>>, sent |-> <<>>, upstream |-> "",
     reply |-> [candidates |-> <<>>, usage |-> "None"], failure |-> "",
     outcome |-> NoOutcome, presented |-> NoneId, session_id |-> NoneId, message |-> <<>>,
     parsed |-> [raised |-> "", type |-> "", content |-> <<>>, fields |-> <<>>,
                 exc |-> NoException],
     user_at |-> 0, response |-> NoResponse]

\* no request in progress; the service was initialised
HttpIdle ==
    /\ service = "ready"
    /\ req = [r \in Reqs |-> NoRequest]

StoreIdle ==
    /\ InitLock
    /\ HttpIdle
    /\ sessions = <<>>
    /\ lists = <<>>
    /\ dicts = <<>>
    /\ now = 0
    /\ issued = 0
    /\ held = NoHeld
    /\ ret = Ret("init", NoneId, "", "", NoneId, <<>>, 0, 0)
    /\ log = <<>>
    /\ returned = <<>>
    /\ steps = 0

Init ==
    /\ StoreIdle
    /\ InitNoText

Step == steps < MaxSteps /\ steps' = steps + 1 /\ UNCHANGED <<lockVars, xmlVars, httpVars>>

GetOrCreate ==
    \E sid \in ClientIds :
        LET r == GetOrCreateOp(sessions, lists, dicts, sid, Uuid(issued + 1), now)
            h == [id |-> r.id, history |-> r.history]
            c == Collect(r.S, r.L, r.D, h)
            v == ListValue(c.L, c.D, r.history)
        IN  /\ Step
            /\ sessions' = r.S
            /\ lists' = c.L
            /\ dicts' = c.D
            /\ issued' = IF Known(sessions, sid) THEN issued ELSE issued + 1
            /\ held' = h
            /\ ret' = Ret("get_or_create", sid, "", "", r.id, v, 0, Idle(sessions, sid, now))
            /\ log' = [x \in DOMAIN r.S |-> IF x \in DOMAIN log THEN log[x] ELSE <<>>]
            /\ returned' = [x \in DOMAIN r.S |->
                               IF x = r.id THEN v
                               ELSE IF x \in DOMAIN returned THEN returned[x] ELSE <<>>]
            /\ UNCHANGED now

AddMessage ==
    \E sid \in ClientIds \ {EmptyStr}, role \in Roles, content \in Contents :
        LET r == AddMessageOp(sessions, lists, dicts, sid, role, content, now)
            c == Collect(r.S, r.L, r.D, held)
        IN  /\ Step
            /\ sessions' = r.S
            /\ lists' = c.L
            /\ dicts' = c.D
            /\ ret' = Ret("add_message", sid, role, content, NoneId, <<>>, 0,
                        Idle(sessions, sid, now))
            /\ log' = [x \in DOMAIN log |->
                          IF x = sid THEN Append(log[x], Message(role, content))
                          ELSE log[x]]
            /\ UNCHANGED <<now, issued, held, returned>>

CleanupExpired ==
    LET r == CleanupOp(sessions, now)
        c == Collect(r.S, lists, dicts, held)
    IN  /\ Step
        /\ sessions' = r.S
        /\ lists' = c.L
        /\ dicts' = c.D
        /\ ret' = Ret("cleanup_expired", NoneId, "", "", NoneId, <<>>, r.count, 0)
        /\ log' = Restrict(log, DOMAIN r.S)
        /\ returned' = Restrict(returned, DOMAIN r.S)
        /\ UNCHANGED <<now, issued, held>>

GetSessionCount ==
    /\ Step
    /\ ret' = Ret("get_session_count", NoneId, "", "", NoneId, <<>>, SessionCount(sessions), 0)
    /\ UNCHANGED <<sessions, lists, dicts, now, issued, held, log, returned>>

\* the clock advances, by one minute or by the TTL
Tick ==
    \E d \in {1, TtlMinutes} :
        /\ Step
        /\ now' = now + d
        /\ ret' = Ret("tick", NoneId, "", "", NoneId, <<>>, 0, 0)
        /\ UNCHANGED <<sessions, lists, dicts, issued, held, log, returned>>

Next == GetOrCreate \/ AddMessage \/ CleanupExpired \/ GetSessionCount \/ Tick

Spec == Init /\ [][Next]_vars


-----------------------------------------------------------------------------
(* Properties of the store used through its operations (specification Spec) *)

Value == StoreValue(sessions, lists, dicts)

ValueNext == StoreValue(sessions', lists', dicts')

DictRefs(L, lref) == {L[lref][i] : i \in 1..Len(L[lref])}

\* C1: while a session lives, its stored history is exactly the sequence of
\* the add_message calls that took effect on it, in that order; the history
\* an earlier get_or_create returned is a prefix of it (hence of what any
\* later get_or_create returns), and get_or_create on a live id returns
\* exactly that sequence.
C1_HistoryIsAppendLog ==
    /\ \A sid \in DOMAIN sessions :
           /\ Value[sid].messages = log[sid]
           /\ IsPrefix(returned[sid], Value[sid].messages)
    /\ (ret.op = "get_or_create" /\ ret.id = ret.sid) => ret.history = log[ret.id]

C1_Witness ==
    /\ ret.op = "add_message"
    /\ ret.sid \in DOMAIN sessions
    /\ Len(returned[ret.sid]) = 1
    /\ Len(log[ret.sid]) = 2
    /\ log[ret.sid][1] # log[ret.sid][2]

\* C3: get_or_create with an id that is not in the store (None, "", never
\* issued, or removed by cleanup_expired) adds exactly one empty session
\* under a new id that differs from the supplied id and from every id of the
\* store, and returns (new_id, []); the supplied id stays absent, an id that
\* was removed never comes back, and get_session_count counts exactly the
\* sessions present.
C3_UnknownIdCreatesFresh ==
    [][/\ (ret'.op = "get_or_create" /\ ret'.sid \notin DOMAIN sessions) =>
            /\ ret'.id # ret'.sid
            /\ ret'.id \notin DOMAIN sessions
            /\ ret'.history = <<>>
            /\ DOMAIN sessions' = DOMAIN sessions \cup {ret'.id}
            /\ ValueNext[ret'.id].messages = <<>>
            /\ ret'.sid \notin DOMAIN sessions'
            /\ \A x \in DOMAIN sessions : ValueNext[x] = Value[x]
       /\ \A x \in 1..issued : x \notin DOMAIN sessions => x \notin DOMAIN sessions'
       /\ ret'.op = "get_session_count" => ret'.count = Cardinality(DOMAIN sessions)
      ]_vars

C3_Witness ==
    /\ ret.op = "get_or_create"
    /\ ret.sid \in 1..issued
    /\ ret.sid # ret.id
    /\ ret.sid \notin DOMAIN sessions
    /\ ret.history = <<>>

\* C5: add_message on an id that is not in the store leaves the whole store
\* unchanged; on a known id it appends exactly that one message to that
\* session, sets that session's last_accessed to the present time, and
\* leaves every other session as it was.
C5_AddMessageFrame ==
    [][ret'.op = "add_message" =>
          IF ret'.sid \notin DOMAIN sessions
          THEN ValueNext = Value
          ELSE /\ DOMAIN sessions' = DOMAIN sessions
               /\ \A x \in DOMAIN sessions \ {ret'.sid} : ValueNext[x] = Value[x]
               /\ ValueNext[ret'.sid].messages =
                      Append(Value[ret'.sid].messages, Message(ret'.role, ret'.content))
               /\ ValueNext[ret'.sid].last_accessed = now
               /\ ValueNext[ret'.sid].created_at = Value[ret'.sid].created_at
      ]_vars

\* add_message was called with the id of a session that expiry removed
C5_Witness ==
    /\ ret.op = "add_message"
    /\ ret.sid \in 1..issued
    /\ ret.sid \notin DOMAIN sessions
    /\ sessions # <<>>

\* C6: cleanup_expired removes exactly the sessions idle for more than the
\* TTL, keeps every other session unchanged (one idle for exactly the TTL
\* included), and returns the number removed, which is the decrease of the
\* session count.
C6_CleanupRemovesExactlyExpired ==
    [][ret'.op = "cleanup_expired" =>
          /\ DOMAIN sessions' =
                 {x \in DOMAIN sessions : now - sessions[x].last_accessed <= TtlMinutes}
          /\ \A x \in DOMAIN sessions' : ValueNext[x] = Value[x]
          /\ ret'.count = Cardinality(DOMAIN sessions \ DOMAIN sessions')
          /\ ret'.count = Cardinality(DOMAIN sessions) - Cardinality(DOMAIN sessions')
      ]_vars

\* cleanup removed a session and kept one that was idle for exactly the TTL
C6_Witness ==
    /\ ret.op = "cleanup_expired"
    /\ ret.count = 1
    /\ \E x \in DOMAIN sessions : now - sessions[x].last_accessed = TtlMinutes

\* C7: get_or_create(None) yields an id that no live session and no earlier
\* call had, with an empty history; two sessions never share a list object
\* or a message object, each session's history holds exactly the messages
\* added under its own id, and a snapshot returned for one id shares nothing
\* with another id's history.
C7_SessionsIsolated ==
    /\ (ret.op = "get_or_create" /\ ret.sid = NoneId) =>
           /\ ret.history = <<>>
           /\ ret.id = Uuid(issued)
           /\ Value[ret.id].messages = <<>>
    /\ \A a \in DOMAIN sessions :
           /\ Value[a].messages = log[a]
           /\ \A b \in DOMAIN sessions \ {a} :
                  /\ sessions[a].messages # sessions[b].messages
                  /\ DictRefs(lists, sessions[a].messages)
                         \cap DictRefs(lists, sessions[b].messages) = {}
                  /\ held.id = a =>
                         /\ held.history # sessions[b].messages
                         /\ DictRefs(lists, held.history)
                                \cap DictRefs(lists, sessions[b].messages) = {}

\* two sessions, each holding a message of its own
C7_Witness ==
    \E a, b \in DOMAIN sessions :
        /\ a # b
        /\ Len(log[a]) = 1
        /\ Len(log[b]) = 1
        /\ log[a] # log[b]
        /\ held.id = a
        /\ held.history # NullRef
        /\ Len(lists[held.history]) = 1

-----------------------------------------------------------------------------
(* A caller that changes the value get_or_create returned to it: the list
   (append, pop, item assignment) and the message dicts it reaches through
   the list (item assignment on a dict). *)

CallerStep(op, L, D) ==
    LET c == Collect(sessions, L, D, held)
    IN  /\ Step
        /\ held.history # NullRef
        /\ lists' = c.L
        /\ dicts' = c.D
        /\ ret' = Ret(op, held.id, "", "", NoneId, <<>>, 0, 0)
        /\ UNCHANGED <<sessions, now, issued, held, log, returned>>

\* history.append({"role": role, "content": content})
CallerAppend ==
    \E role \in Roles, content \in Contents :
        LET d == Fresh(DOMAIN dicts)
        IN  CallerStep("caller_append",
                       [lists EXCEPT ![held.history] = Append(@, d)],
                       (d :> Message(role, content)) @@ dicts)

\* history.pop()
CallerPop ==
    /\ held.history # NullRef
    /\ Len(lists[held.history]) > 0
    /\ CallerStep("caller_pop",
                  [lists EXCEPT ![held.history] = SubSeq(@, 1, Len(@) - 1)],
                  dicts)

\* history[i] = {"role": role, "content": content}
CallerReplace ==
    /\ held.history # NullRef
    /\ \E i \in 1..Len(lists[held.history]), role \in Roles, content \in Contents :
           LET d == Fresh(DOMAIN dicts)
           IN  CallerStep("caller_replace",
                          [lists EXCEPT ![held.history][i] = d],
                          (d :> Message(role, content)) @@ dicts)

\* history[i]["role"] = role; history[i]["content"] = content
CallerEdit ==
    /\ held.history # NullRef
    /\ \E i \in 1..Len(lists[held.history]), role \in Roles, content \in Contents :
           CallerStep("caller_edit",
                      lists,
                      [dicts EXCEPT ![lists[held.history][i]] = Message(role, content)])

CallerOps == {"caller_append", "caller_pop", "caller_replace", "caller_edit"}

NextAlias == Next \/ CallerAppend \/ CallerPop \/ CallerReplace \/ CallerEdit

SpecAlias == Init /\ [][NextAlias]_vars

\* C4: get_or_create on a known id returns that id and the session's
\* history; nothing the caller does to the returned value changes what the
\* store holds, and a later add_message does not change a value that was
\* returned before.
C4_ReturnedValueIsIndependent ==
    [][/\ (ret'.op = "get_or_create" /\ ret'.sid \in DOMAIN sessions) =>
            /\ ret'.id = ret'.sid
            /\ ret'.history = Value[ret'.sid].messages
       /\ ret'.op \in CallerOps => ValueNext = Value
       /\ (ret'.op = "add_message" /\ held.history # NullRef) =>
            ListValue(lists', dicts', held.history) = ListValue(lists, dicts, held.history)
      ]_vars

\* the part of C4 that the shallow copy does give: changes to the returned
\* list itself (append, pop, item assignment) never reach the store
C4_ListChangesStayLocal ==
    [][ret'.op \in (CallerOps \ {"caller_edit"}) => ValueNext = Value]_vars

-----------------------------------------------------------------------------
(* The store under concurrent request handlers, one statement at a time.
   Every operation is `async with self._lock:` around its body; here a
   handler may be overtaken between any two statements of a body, which
   allows more interleavings than the event loop does (it switches only
   where a coroutine suspends).  A list returned to a caller is a private
   object, kept by value; lists are not freed in this specification. *)

\* a plausible slip: the body runs without waiting for the lock
LockFreeIgnored(l) == TRUE

\* asyncio.Lock.acquire(): proceeds only when the lock is not held
LockFree(l) == ~l

\* dict iteration order is insertion order: ids in the order they were issued
RECURSIVE Ascending(_)
Ascending(ids) ==
    IF ids = {} THEN <<>>
    ELSE LET m == CHOOSE x \in ids : \A y \in ids : x <= y
         IN  <<m>> \o Ascending(ids \ {m})

InLock(p) == pc[p] \notin {"idle", "acquire"}

FirstStatement == {"L41", "L59", "L73", "L85"}

Local(p, field, v) == call' = [call EXCEPT ![p][field] = v]

Goto(p, label) == pc' = [pc EXCEPT ![p] = label]

Raise(p, e) == /\ call' = [call EXCEPT ![p].res.error = e]
               /\ Goto(p, "release")

LockFrame == UNCHANGED <<held, ret, log, returned, xmlVars, httpVars>>

(* The concurrent handlers start on a store that holds two sessions, made by
   two get_or_create(None) calls at time 0, with the clock at 0 or one minute
   past the TTL. *)
TwoSessions ==
    LET a == GetOrCreateOp(<<>>, <<>>, <<>>, NoneId, Uuid(1), 0)
        ca == Collect(a.S, a.L, a.D, NoHeld)
        b == GetOrCreateOp(a.S, ca.L, ca.D, NoneId, Uuid(2), 0)
        cb == Collect(b.S, b.L, b.D, NoHeld)
    IN  [S |-> b.S, L |-> cb.L, D |-> cb.D]

InitConc ==
    /\ InitNoText
    /\ HttpIdle
    /\ locked = FALSE
    /\ pc = [p \in Procs |-> "idle"]
    /\ call = [p \in Procs |-> NoCall]
    /\ seq = TwoSessions
    /\ sessions = TwoSessions.S
    /\ lists = TwoSessions.L
    /\ dicts = TwoSessions.D
    /\ now \in {0, TtlMinutes + 1}
    /\ issued = 2
    /\ held = NoHeld
    /\ ret = Ret("init", NoneId, "", "", NoneId, <<>>, 0, 0)
    /\ log = <<>>
    /\ returned = <<>>
    /\ steps = 0

\* a handler calls an operation of the store
StartCall(p) ==
    /\ pc[p] = "idle"
    /\ steps < MaxCalls
    /\ steps' = steps + 1
    /\ \E op \in {"get_or_create", "add_message", "cleanup_expired", "get_session_count"},
          sid \in ClientIds, role \in Roles, content \in Contents :
           /\ op = "get_or_create" => role = "user" /\ content = "hi"
           /\ op = "add_message" => sid # EmptyStr
           /\ op \in {"cleanup_expired", "get_session_count"} =>
                  sid = NoneId /\ role = "user" /\ content = "hi"
           /\ call' = [call EXCEPT ![p] =
                          [NoCall EXCEPT !.op = op, !.sid = sid,
                                         !.role = role, !.content = content]]
    /\ Goto(p, "acquire")
    /\ UNCHANGED <<sessions, lists, dicts, now, issued, locked, seq>>
    /\ LockFrame

\* async with self._lock: (entry)
Acquire(p) ==
    /\ pc[p] = "acquire"
    /\ LockFree(locked)
    /\ locked' = TRUE
    /\ Goto(p, CASE call[p].op = "get_or_create" -> "L41"
                 [] call[p].op = "add_message" -> "L59"
                 [] call[p].op = "cleanup_expired" -> "L73"
                 [] OTHER -> "L85")
    /\ UNCHANGED <<sessions, lists, dicts, now, issued, steps, call, seq>>
    /\ LockFrame

\* if session_id and session_id in self._sessions:
L41(p) ==
    /\ pc[p] = "L41"
    /\ Goto(p, IF Known(sessions, call[p].sid) THEN "L42" ELSE "L46")
    /\ UNCHANGED <<sessions, lists, dicts, now, issued, steps, locked, call, seq>>
    /\ LockFrame

\* session = self._sessions[session_id]
L42(p) ==
    /\ pc[p] = "L42"
    /\ IF call[p].sid \in DOMAIN sessions
       THEN /\ Local(p, "session", sessions[call[p].sid].messages)
            /\ Goto(p, "L43")
       ELSE Raise(p, "KeyError")
    /\ UNCHANGED <<sessions, lists, dicts, now, issued, steps, locked, seq>>
    /\ LockFrame

\* session.last_accessed = datetime.now()
L43(p) ==
    /\ pc[p] = "L43"
    /\ sessions' = IF /\ call[p].sid \in DOMAIN sessions
                      /\ sessions[call[p].sid].messages = call[p].session
                   THEN [sessions EXCEPT ![call[p].sid] = Touch(@, now)]
                   ELSE sessions
    /\ Local(p, "t", now)
    /\ Goto(p, "L44")
    /\ UNCHANGED <<lists, dicts, now, issued, steps, locked, seq>>
    /\ LockFrame

\* return session_id, session.messages.copy()
L44(p) ==
    /\ pc[p] = "L44"
    /\ call' = [call EXCEPT ![p].res.id = call[p].sid,
                            ![p].res.history = ListValue(lists, dicts, call[p].session)]
    /\ Goto(p, "release")
    /\ UNCHANGED <<sessions, lists, dicts, now, issued, steps, locked, seq>>
    /\ LockFrame

\* new_id = str(uuid.uuid4())
L46(p) ==
    /\ pc[p] = "L46"
    /\ issued' = issued + 1
    /\ Local(p, "new_id", NewId(call[p].sid, Uuid(issued + 1)))
    /\ Goto(p, "L47")
    /\ UNCHANGED <<sessions, lists, dicts, now, steps, locked, seq>>
    /\ LockFrame

\* self._sessions[new_id] = ConversationSession()
L47(p) ==
    /\ pc[p] = "L47"
    /\ LET own == Fresh(DOMAIN lists)
       IN  /\ sessions' = (call[p].new_id :> NewSession(own, now)) @@ sessions
           /\ lists' = (own :> <<>>) @@ lists
    /\ Local(p, "t", now)
    /\ Goto(p, "L48")
    /\ UNCHANGED <<dicts, now, issued, steps, locked, seq>>
    /\ LockFrame

\* return new_id, []
L48(p) ==
    /\ pc[p] = "L48"
    /\ call' = [call EXCEPT ![p].res.id = call[p].new_id, ![p].res.history = <<>>]
    /\ Goto(p, "release")
    /\ UNCHANGED <<sessions, lists, dicts, now, issued, steps, locked, seq>>
    /\ LockFrame

\* if session_id in self._sessions:
L59(p) ==
    /\ pc[p] = "L59"
    /\ Goto(p, IF Present(sessions, call[p].sid) THEN "L60" ELSE "release")
    /\ UNCHANGED <<sessions, lists, dicts, now, issued, steps, locked, call, seq>>
    /\ LockFrame

\* self._sessions[session_id].messages.append({"role": role, "content": content})
L60(p) ==
    /\ pc[p] = "L60"
    /\ IF call[p].sid \in DOMAIN sessions
       THEN LET d == Fresh(DOMAIN dicts)
            IN  /\ lists' = [lists EXCEPT ![sessions[call[p].sid].messages] = AppendMsg(@, d)]
                /\ dicts' = (d :> Message(call[p].role, call[p].content)) @@ dicts
                /\ Goto(p, "L64")
                /\ UNCHANGED call
       ELSE /\ Raise(p, "KeyError")
            /\ UNCHANGED <<lists, dicts>>
    /\ UNCHANGED <<sessions, now, issued, steps, locked, seq>>
    /\ LockFrame

\* self._sessions[session_id].last_accessed = datetime.now()
L64(p) ==
    /\ pc[p] = "L64"
    /\ IF call[p].sid \in DOMAIN sessions
       THEN /\ sessions' = [sessions EXCEPT ![call[p].sid] = Touch(@, now)]
            /\ Local(p, "t", now)
            /\ Goto(p, "release")
       ELSE /\ Raise(p, "KeyError")
            /\ UNCHANGED sessions
    /\ UNCHANGED <<lists, dicts, now, issued, steps, locked, seq>>
    /\ LockFrame

\* now = datetime.now()
L73(p) ==
    /\ pc[p] = "L73"
    /\ Local(p, "t", now)
    /\ Goto(p, "L74")
    /\ UNCHANGED <<sessions, lists, dicts, now, issued, steps, locked, seq>>
    /\ LockFrame

\* expired = [sid for sid, session in self._sessions.items() if ...]
L74(p) ==
    /\ pc[p] = "L74"
    /\ LET expired == Ascending(Expired(sessions, call[p].t))
       IN  call' = [call EXCEPT ![p].expired = expired, ![p].n = Len(expired)]
    /\ Goto(p, "L78")
    /\ UNCHANGED <<sessions, lists, dicts, now, issued, steps, locked, seq>>
    /\ LockFrame

\* for sid in expired: del self._sessions[sid]
L78(p) ==
    /\ pc[p] = "L78"
    /\ IF call[p].expired = <<>>
       THEN /\ Goto(p, "L80")
            /\ UNCHANGED <<sessions, call>>
       ELSE IF Head(call[p].expired) \in DOMAIN sessions
       THEN /\ sessions' = Remove(sessions, {Head(call[p].expired)})
            /\ Local(p, "expired", Tail(call[p].expired))
            /\ UNCHANGED pc
       ELSE /\ Raise(p, "KeyError")
            /\ UNCHANGED sessions
    /\ UNCHANGED <<lists, dicts, now, issued, steps, locked, seq>>
    /\ LockFrame

\* return len(expired)
L80(p) ==
    /\ pc[p] = "L80"
    /\ call' = [call EXCEPT ![p].res.count = call[p].n]
    /\ Goto(p, "release")
    /\ UNCHANGED <<sessions, lists, dicts, now, issued, steps, locked, seq>>
    /\ LockFrame

\* return len(self._sessions)
L85(p) ==
    /\ pc[p] = "L85"
    /\ call' = [call EXCEPT ![p].res.count = SessionCount(sessions)]
    /\ Goto(p, "release")
    /\ UNCHANGED <<sessions, lists, dicts, now, issued, steps, locked, seq>>
    /\ LockFrame

(* What the call does and returns when it runs alone on the store `q`, with
   the clock value and the uuid the handler got. *)
Alone(q, c) ==
    CASE c.op = "get_or_create" ->
             LET r == GetOrCreateOp(q.S, q.L, q.D, c.sid, c.new_id, c.t)
                 g == Collect(r.S, r.L, r.D, [id |-> r.id, history |-> r.history])
                 k == Collect(r.S, r.L, r.D, NoHeld)
             IN  [q |-> [S |-> r.S, L |-> k.L, D |-> k.D],
                  res |-> [error |-> "", id |-> r.id,
                           history |-> ListValue(g.L, g.D, r.history), count |-> 0]]
      [] c.op = "add_message" ->
             LET r == AddMessageOp(q.S, q.L, q.D, c.sid, c.role, c.content, c.t)
             IN  [q |-> [S |-> r.S, L |-> r.L, D |-> r.D],
                  res |-> NoCall.res]
      [] c.op = "cleanup_expired" ->
             LET r == CleanupOp(q.S, c.t)
                 k == Collect(r.S, q.L, q.D, NoHeld)
             IN  [q |-> [S |-> r.S, L |-> k.L, D |-> k.D],
                  res |-> [NoCall.res EXCEPT !.count = r.count]]
      [] OTHER ->
             [q |-> q, res |-> [NoCall.res EXCEPT !.count = SessionCount(q.S)]]

\* async with self._lock: (exit); the call returns or raises
Release(p) ==
    /\ pc[p] = "release"
    /\ locked' = FALSE
    /\ LET a == Alone(seq, call[p])
       IN  /\ seq' = a.q
           /\ call' = [call EXCEPT ![p].expect = a.res]
    /\ Goto(p, "idle")
    /\ UNCHANGED <<sessions, lists, dicts, now, issued, steps>>
    /\ LockFrame

TickLock ==
    \E d \in {1, TtlMinutes} :
        /\ steps < MaxCalls
        /\ steps' = steps + 1
        /\ now' = now + d
        /\ UNCHANGED <<sessions, lists, dicts, issued, lockVars>>
        /\ LockFrame

NextLock ==
    \/ TickLock
    \/ \E p \in Procs :
           \/ StartCall(p) \/ Acquire(p) \/ Release(p)
           \/ L41(p) \/ L42(p) \/ L43(p) \/ L44(p) \/ L46(p) \/ L47(p) \/ L48(p)
           \/ L59(p) \/ L60(p) \/ L64(p)
           \/ L73(p) \/ L74(p) \/ L78(p) \/ L80(p)
           \/ L85(p)

SpecLock == InitConc /\ [][NextLock]_vars

SeqValue == StoreValue(seq.S, seq.L, seq.D)

\* C2: the operations are atomic with respect to each other.  At most one
\* handler is inside a body; whenever no handler is inside a body, and
\* whenever a handler is about to run the first statement of a body, the
\* store equals the result of running the completed calls one after another
\* in the order they held the lock (so no half-removed or half-updated
\* session is ever seen); and every completed call returned what it returns
\* in that sequential run, without raising.
C2_OperationsAreAtomic ==
    /\ Cardinality({p \in Procs : InLock(p)}) <= 1
    /\ locked <=> \E p \in Procs : InLock(p)
    /\ (\A p \in Procs : ~InLock(p) \/ pc[p] \in FirstStatement) => Value = SeqValue
    /\ \A p \in Procs :
           (pc[p] = "idle" /\ call[p].op # "none") => call[p].res = call[p].expect

\* two concurrent add_message calls on the same live session: one has
\* appended and not yet refreshed last_accessed, the other waits for the lock
C2_Witness ==
    \E p, q \in Procs :
        /\ p # q
        /\ pc[p] = "L64"
        /\ pc[q] = "acquire"
        /\ call[q].op = "add_message"
        /\ call[q].sid = call[p].sid
        /\ call[q].role # call[p].role
        /\ Len(Value[call[p].sid].messages) = 2

\* cleanup_expired has removed one of two expired sessions while another
\* call waits for the lock
C2_WitnessCleanup ==
    \E p, q \in Procs :
        /\ pc[p] = "L78"
        /\ Len(call[p].expired) = 1
        /\ call[p].n = 2
        /\ pc[q] = "acquire"
        /\ call[q].op = "get_or_create"
        /\ call[q].sid = Head(call[p].expired)

-----------------------------------------------------------------------------
(* xml_parser: texts are sequences of one-character strings; indices are
   Python's (from 0), s[i:j] is Slice(s, i, j). *)

\* the characters str.strip() removes, among those the texts here contain
Whitespace == {" ", "\n", "\t"}

QuestionTag == <<"q", "u", "e", "s", "t", "i", "o", "n">>

CanvasConfigTag == <<"c", "a", "n", "v", "a", "s", "_", "c", "o", "n", "f", "i", "g">>

StyleUpdateTag == <<"s", "t", "y", "l", "e", "_", "u", "p", "d", "a", "t", "e">>

Tags == {QuestionTag, CanvasConfigTag, StyleUpdateTag}

\* open_tag = f"<{tag}>"
OpenTag(tag) == <<"<">> \o tag \o <<">">>

\* close_tag = f"</{tag}>"
CloseTag(tag) == <<"<", "/">> \o tag \o <<">">>

Slice(s, i, j) == SubSeq(s, i + 1, j)

\* str.find(sub, start): the lowest index >= start at which sub occurs, else -1
Find(s, sub, start) ==
    LET found == {i \in start..(Len(s) - Len(sub)) : Slice(s, i, i + Len(sub)) = sub}
    IN  IF found = {} THEN -1
        ELSE CHOOSE i \in found : \A k \in found : i <= k

\* `sub in s`
Contains(s, sub) == Find(s, sub, 0) # -1

RECURSIVE LStrip(_)
LStrip(s) == IF s # <<>> /\ Head(s) \in Whitespace THEN LStrip(Tail(s)) ELSE s

RECURSIVE RStrip(_)
RStrip(s) ==
    IF s # <<>> /\ s[Len(s)] \in Whitespace THEN RStrip(SubSeq(s, 1, Len(s) - 1)) ELSE s

\* str.strip()
Strip(s) == RStrip(LStrip(s))

\* a plausible slip: response.find(close_tag), from the start of the text
FindCloseFromStart(response, close_tag, open_end) == Find(response, close_tag, 0)

\* response.find(close_tag, open_end)
FindClose(response, close_tag, open_end) == Find(response, close_tag, open_end)

\* a plausible slip: the exception of the first check raised by the second too
ExtractTagBoundsOneError(response, tag) ==
    LET open_tag == OpenTag(tag)
        close_tag == CloseTag(tag)
        open_start == Find(response, open_tag, 0)
        open_end == open_start + Len(open_tag)
        close_start == Find(response, close_tag, open_end)
        close_end == close_start + Len(close_tag)
    IN  IF open_start = -1 \/ close_start = -1
        THEN [raised |-> "MissingTagError", bounds |-> <<>>]
        ELSE [raised |-> "", bounds |-> <<open_start, open_end, close_start, close_end>>]

ExtractTagBounds(response, tag) ==
    LET open_tag == OpenTag(tag)
        close_tag == CloseTag(tag)
        open_start == Find(response, open_tag, 0)
        open_end == open_start + Len(open_tag)
        close_start == FindClose(response, close_tag, open_end)
        close_end == close_start + Len(close_tag)
    IN  IF open_start = -1
        THEN [raised |-> "MissingTagError", bounds |-> <<>>]
        ELSE IF close_start = -1
        THEN [raised |-> "TruncatedResponseError", bounds |-> <<>>]
        ELSE [raised |-> "", bounds |-> <<open_start, open_end, close_start, close_end>>]

(* Exceptions.  An exception is its class (the field `raised` of an outcome)
   and: cause, the class of the exception it was raised while handling, if
   any; message, the text given to Exception.__init__; attached, the texts
   kept as attributes of the exception object.  A message is a sequence
   whose elements are the characters of the interpolated texts and, as one
   element each, the fixed pieces of the f-string. *)
PreviewLimit == 200

Ellipsis == <<".", ".", ".">>

\* response_preview[:200] + "..." if len(response_preview) > 200 else response_preview
Preview(text) ==
    IF Len(text) > PreviewLimit THEN Slice(text, 0, PreviewLimit) \o Ellipsis ELSE text

\* a plausible slip: the exception keeps only what its message shows
MissingTagErrorKeepsPreview(tag, response_preview) ==
    [cause |-> "",
     message |-> <<"No <">> \o tag \o <<"> tag found in response. Response preview: ">>
                     \o Preview(response_preview),
     attached |-> {Preview(response_preview)}]

MissingTagError(tag, response_preview) ==
    [cause |-> "",
     message |-> <<"No <">> \o tag \o <<"> tag found in response. Response preview: ">>
                     \o Preview(response_preview),
     attached |-> {response_preview}]

MalformedXmlError(tag, error, response_preview) ==
    [cause |-> "",
     message |-> <<"Malformed XML around <">> \o tag \o <<">: ">> \o error
                     \o <<". Response preview: ">> \o Preview(response_preview),
     attached |-> {error, response_preview}]

TruncatedResponseError(tag, response_preview) ==
    [cause |-> "",
     message |-> <<"Response appears truncated - found <">> \o tag \o <<"> but no </">>
                     \o tag \o <<">. Response preview: ">> \o Preview(response_preview),
     attached |-> {response_preview}]

\* the exception object _extract_tag_bounds raises with class e
XmlParseError(e, tag, response) ==
    IF e = "MissingTagError" THEN MissingTagError(tag, response)
    ELSE IF e = "TruncatedResponseError" THEN TruncatedResponseError(tag, response)
    ELSE NoException

\* raw_content.strip()
Stripped(raw_content) == Strip(raw_content)

ParseXmlContent(response, tag) ==
    LET b == ExtractTagBounds(response, tag)
    IN  IF b.raised # ""
        THEN [raised |-> b.raised, content |-> <<>>,
              exc |-> XmlParseError(b.raised, tag, response)]
        ELSE [raised |-> "", exc |-> NoException,
              content |-> Stripped(Slice(response, b.bounds[2], b.bounds[3]))]

(* json.loads on the texts that occur here.  Outside strings their characters
   are whitespace, digits, letters, "_", "<", "/", ">", "{", "}", ":", "," and
   the double quote and no digit is followed by a letter or a "."; inside
   strings there is no backslash.  Over such texts a JSON document is an
   object, a string or an unsigned integer without leading zeros.  A JSON
   value is [kind, v]: v is the number, the string's characters, or the
   function from the object's keys to their values (a repeated key keeps its
   last value, as json.loads does). *)
Digits == <<"0", "1", "2", "3", "4", "5", "6", "7", "8", "9">>

IsDigit(ch) == \E k \in 1..Len(Digits) : Digits[k] = ch

DigitValue(ch) == (CHOOSE k \in 1..Len(Digits) : Digits[k] = ch) - 1

JsonNumber(n) == [kind |-> "number", v |-> n]

JsonString(chars) == [kind |-> "string", v |-> chars]

JsonObject(members) == [kind |-> "object", v |-> members]

Scanned(value, end) == [ok |-> TRUE, value |-> value, end |-> end]

NotJson == [ok |-> FALSE, value |-> JsonNumber(0), end |-> 0]

\* the index (from 1) of the first character at or after i that is no whitespace
RECURSIVE SkipWhitespace(_, _)
SkipWhitespace(s, i) ==
    IF i <= Len(s) /\ s[i] \in Whitespace THEN SkipWhitespace(s, i + 1) ELSE i

\* the index of the first double quote at or after i, else 0
RECURSIVE FindQuote(_, _)
FindQuote(s, i) ==
    IF i > Len(s) THEN 0
    ELSE IF s[i] = "\"" THEN i
    ELSE FindQuote(s, i + 1)

\* a string starts at i; control characters are not allowed inside
ScanString(s, i) ==
    LET close == FindQuote(s, i + 1)
    IN  IF i > Len(s) \/ s[i] # "\"" \/ close = 0 THEN NotJson
        ELSE IF \E k \in (i + 1)..(close - 1) : s[k] \in {"\n", "\t"} THEN NotJson
        ELSE Scanned(JsonString(SubSeq(s, i + 1, close - 1)), close + 1)

RECURSIVE ScanDigits(_, _, _)
ScanDigits(s, i, n) ==
    IF i <= Len(s) /\ IsDigit(s[i])
    THEN ScanDigits(s, i + 1, 10 * n + DigitValue(s[i]))
    ELSE Scanned(JsonNumber(n), i)

\* a number starts at i; a leading zero ends the number
ScanNumber(s, i) ==
    IF s[i] = "0" THEN Scanned(JsonNumber(0), i + 1) ELSE ScanDigits(s, i, 0)

\* dict[key] = value
Put(members, key, value) ==
    [k \in DOMAIN members \cup {key} |-> IF k = key THEN value ELSE members[k]]

RECURSIVE ScanValue(_, _)
RECURSIVE ScanMembers(_, _, _)

\* the members of an object from the key at i on, up to the closing brace
ScanMembers(s, i, members) ==
    LET key == ScanString(s, i)
        colon == SkipWhitespace(s, key.end)
        value == ScanValue(s, SkipWhitespace(s, colon + 1))
        next == SkipWhitespace(s, value.end)
        more == Put(members, key.value.v, value.value)
    IN  IF ~key.ok THEN NotJson
        ELSE IF colon > Len(s) \/ s[colon] # ":" THEN NotJson
        ELSE IF ~value.ok \/ next > Len(s) THEN NotJson
        ELSE IF s[next] = "," THEN ScanMembers(s, SkipWhitespace(s, next + 1), more)
        ELSE IF s[next] = "}" THEN Scanned(JsonObject(more), next + 1)
        ELSE NotJson

\* a value starts at i
ScanValue(s, i) ==
    IF i > Len(s) THEN NotJson
    ELSE IF s[i] = "{"
    THEN LET first == SkipWhitespace(s, i + 1)
         IN  IF first <= Len(s) /\ s[first] = "}"
             THEN Scanned(JsonObject(<<>>), first + 1)
             ELSE ScanMembers(s, first, <<>>)
    ELSE IF s[i] = "\"" THEN ScanString(s, i)
    ELSE IF IsDigit(s[i]) THEN ScanNumber(s, i)
    ELSE NotJson

\* a plausible slip: text after the document is ignored
JsonLoadsPrefix(s) ==
    LET doc == ScanValue(s, SkipWhitespace(s, 1))
    IN  IF doc.ok
        THEN [raised |-> "", value |-> doc.value]
        ELSE [raised |-> "JSONDecodeError", value |-> doc.value]

\* one value with whitespace around it and nothing else
JsonLoads(s) ==
    LET doc == ScanValue(s, SkipWhitespace(s, 1))
    IN  IF doc.ok /\ SkipWhitespace(s, doc.end) > Len(s)
        THEN [raised |-> "", value |-> doc.value]
        ELSE [raised |-> "JSONDecodeError", value |-> NotJson.value]

Returned(type, content, fields) ==
    [raised |-> "", type |-> type, content |-> content, fields |-> fields,
     exc |-> NoException]

Raised(e, exc) ==
    [raised |-> e, type |-> "", content |-> <<>>, fields |-> <<>>, exc |-> exc]

\* str(e) of a json.JSONDecodeError: what was expected and where, nothing of
\* the document
DecodeErrorText == <<"{e}">>

\* ValueError(message), raised while handling an exception of class cause
ValueError(cause, message) == [cause |-> cause, message |-> message, attached |-> {}]

\* a plausible slip: the data tag tested before <question>
HasQuestionUnlessData(response) ==
    /\ Contains(response, OpenTag(QuestionTag))
    /\ ~Contains(response, OpenTag(CanvasConfigTag))
    /\ ~Contains(response, OpenTag(StyleUpdateTag))

\* if "<question>" in response:
HasQuestion(response) == Contains(response, OpenTag(QuestionTag))

\* a plausible slip: a text without tags is taken to be a question
ParseOnboardResponseLenient(response) ==
    IF HasQuestion(response)
    THEN LET c == ParseXmlContent(response, QuestionTag)
         IN  IF c.raised # "" THEN Raised(c.raised, c.exc)
             ELSE Returned("question", c.content, <<>>)
    ELSE IF Contains(response, OpenTag(CanvasConfigTag))
    THEN LET c == ParseXmlContent(response, CanvasConfigTag)
             j == JsonLoads(c.content)
         IN  IF c.raised # "" THEN Raised(c.raised, c.exc)
             ELSE IF j.raised # ""
             THEN Raised("ValueError",
                         ValueError(j.raised, <<"Invalid JSON in <canvas_config>: ">>
                                                  \o DecodeErrorText))
             ELSE Returned("config", <<>>, j.value)
    ELSE Returned("question", Strip(response), <<>>)

ParseOnboardResponse(response) ==
    IF HasQuestion(response)
    THEN LET c == ParseXmlContent(response, QuestionTag)
         IN  IF c.raised # "" THEN Raised(c.raised, c.exc)
             ELSE Returned("question", c.content, <<>>)
    ELSE IF Contains(response, OpenTag(CanvasConfigTag))
    THEN LET c == ParseXmlContent(response, CanvasConfigTag)
             j == JsonLoads(c.content)
         IN  IF c.raised # "" THEN Raised(c.raised, c.exc)
             ELSE IF j.raised # ""
             THEN Raised("ValueError",
                         ValueError(j.raised, <<"Invalid JSON in <canvas_config>: ">>
                                                  \o DecodeErrorText))
             ELSE Returned("config", <<>>, j.value)
    ELSE Raised("ValueError",
                ValueError("", <<"Response must contain <question> or <canvas_config>. Response preview: ">>
                                   \o Preview(response)))

CardThemeKey == <<"c", "a", "r", "d", "T", "h", "e", "m", "e">>

CanvasThemeKey == <<"c", "a", "n", "v", "a", "s", "T", "h", "e", "m", "e">>

PhysicsKey == <<"p", "h", "y", "s", "i", "c", "s">>

ExplanationKey == <<"e", "x", "p", "l", "a", "n", "a", "t", "i", "o", "n">>

\* the keys parse_style_response lifts, and the names it gives them
StyleKeys ==
    [k \in {CardThemeKey, CanvasThemeKey, PhysicsKey, ExplanationKey} |->
        IF k = CardThemeKey THEN "card_theme"
        ELSE IF k = CanvasThemeKey THEN "canvas_theme"
        ELSE IF k = PhysicsKey THEN "physics"
        ELSE "explanation"]

\* `key in data`: a key of a dict, a substring of a str; an int has no `in`
In(key, data) ==
    IF data.kind = "object" THEN key \in DOMAIN data.v
    ELSE IF data.kind = "string" THEN Contains(data.v, key)
    ELSE FALSE

\* a plausible slip: every key of the object is copied
LiftAll(data) ==
    [n \in {StyleKeys[k] : k \in {k \in DOMAIN StyleKeys : In(k, data)}}
           \cup {"other" : k \in DOMAIN data.v \ DOMAIN StyleKeys} |->
        IF n = "other" THEN data.v[CHOOSE k \in DOMAIN data.v \ DOMAIN StyleKeys : TRUE]
        ELSE data.v[CHOOSE k \in DOMAIN StyleKeys : In(k, data) /\ StyleKeys[k] = n]]

\* result[...] = data[...] for each known key in data
Lift(data) ==
    LET present == {k \in DOMAIN StyleKeys : In(k, data)}
    IN  [n \in {StyleKeys[k] : k \in present} |->
            data.v[CHOOSE k \in present : StyleKeys[k] = n]]

(* lines 168-177 on the decoded value: a dict gives the update; on an int
   the first `in` raises TypeError; on a str `in` is a substring test and,
   when it holds, the subscript data["..."] raises TypeError.  TypeError is
   not caught by `except json.JSONDecodeError`. *)
Flattened(data) ==
    IF data.kind = "object" THEN Returned("update", <<>>, Lift(data))
    ELSE IF data.kind = "number"
    THEN Raised("TypeError", [cause |-> "", attached |-> {},
                              message |-> <<"argument of type 'int' is not iterable">>])
    ELSE IF \E k \in DOMAIN StyleKeys : In(k, data)
    THEN Raised("TypeError", [cause |-> "", attached |-> {},
                              message |-> <<"string indices must be integers">>])
    ELSE Returned("update", <<>>, <<>>)

ParseStyleResponse(response) ==
    IF HasQuestion(response)
    THEN LET c == ParseXmlContent(response, QuestionTag)
         IN  IF c.raised # "" THEN Raised(c.raised, c.exc)
             ELSE Returned("question", c.content, <<>>)
    ELSE IF Contains(response, OpenTag(StyleUpdateTag))
    THEN LET c == ParseXmlContent(response, StyleUpdateTag)
             j == JsonLoads(c.content)
         IN  IF c.raised # "" THEN Raised(c.raised, c.exc)
             ELSE IF j.raised # ""
             THEN Raised("ValueError",
                         ValueError(j.raised, <<"Invalid JSON in <style_update>: ">>
                                                  \o DecodeErrorText))
             ELSE Flattened(j.value)
    ELSE Raised("ValueError",
                ValueError("", <<"Response must contain <style_update> or <question>. Response preview: ">>
                                   \o Preview(response)))

(* The texts: up to MaxTokens pieces drawn from one of three families: the
   delimiters of <question> with spaces and letters around them; the
   delimiters of <question> and <canvas_config> with empty JSON objects;
   the delimiters of <question> and <style_update> with empty JSON objects. *)
Delimiters(tags) == {OpenTag(t) : t \in tags} \cup {CloseTag(t) : t \in tags}

TokenFamilies ==
    {Delimiters({QuestionTag}) \cup {<<" ">>, <<"a">>},
     Delimiters({QuestionTag, CanvasConfigTag}) \cup {<<"{", "}">>},
     Delimiters({QuestionTag, StyleUpdateTag}) \cup {<<"{", "}">>}}

RECURSIVE Flatten(_)
Flatten(ts) == IF ts = <<>> THEN <<>> ELSE Head(ts) \o Flatten(Tail(ts))

InitXml ==
    /\ StoreIdle
    /\ \E family \in TokenFamilies, n \in 0..MaxTokens :
           \E ts \in [1..n -> family] : xtext = Flatten(ts)
    /\ xres = NoResult

Result(fn, tag, r) ==
    [fn |-> fn, tag |-> tag,
     outcome |-> IF r.raised = "" THEN "return" ELSE r.raised,
     type |-> r.type, content |-> r.content, fields |-> r.fields, exc |-> r.exc]

CallParseXmlContent ==
    /\ xres.fn = "none"
    /\ \E tag \in Tags :
           LET c == ParseXmlContent(xtext, tag)
           IN  xres' = Result("parse_xml_content", tag,
                              [raised |-> c.raised, type |-> "", exc |-> c.exc,
                               content |-> c.content, fields |-> <<>>])
    /\ UNCHANGED <<xtext, storeVars, lockVars, httpVars>>

CallParseOnboardResponse ==
    /\ xres.fn = "none"
    /\ xres' = Result("parse_onboard_response", <<>>, ParseOnboardResponse(xtext))
    /\ UNCHANGED <<xtext, storeVars, lockVars, httpVars>>

CallParseStyleResponse ==
    /\ xres.fn = "none"
    /\ xres' = Result("parse_style_response", <<>>, ParseStyleResponse(xtext))
    /\ UNCHANGED <<xtext, storeVars, lockVars, httpVars>>

NextXml == CallParseXmlContent \/ CallParseOnboardResponse \/ CallParseStyleResponse

SpecXml == InitXml /\ [][NextXml]_vars

(* Texts with JSON bodies: an object of up to MaxMembers members (keys: the
   four the style interpreter knows and one it does not; values: a number
   and an object holding a string), written compactly, with whitespace, or with a defect,
   or a lone number or string; the body stands in a block of a data tag,
   with or without text around it, after an opening delimiter that is never
   closed, inside a question block, or alone. *)
MaxMembers == 2

OtherKey == <<"x">>

JsonKeys == DOMAIN StyleKeys \cup {OtherKey}

ValueTexts == {<<"1", "2">>, <<"{", "\"", "b", "\"", ":", "\"", "c", "\"", "}">>}

ScalarTexts == {<<"7">>, <<"\"", "b", "\"">>, <<"\"", "p", "h", "y", "s", "i", "c", "s", "\"">>}

MemberText(key, value, colon) == <<"\"">> \o key \o <<"\"">> \o colon \o value

RECURSIVE Join(_, _, _)
Join(ms, comma, colon) ==
    IF ms = <<>> THEN <<>>
    ELSE MemberText(ms[1][1], ms[1][2], colon)
             \o (IF Len(ms) = 1 THEN <<>> ELSE comma \o Join(Tail(ms), comma, colon))

Shapes == {"compact", "spaced", "unclosed", "comma", "extra"}

Render(ms, shape) ==
    IF shape = "compact" THEN <<"{">> \o Join(ms, <<",">>, <<":">>) \o <<"}">>
    ELSE IF shape = "spaced"
    THEN <<" ", "{", "\n">> \o Join(ms, <<" ", ",", "\t">>, <<" ", ":", " ">>) \o <<" ", "}", "\n">>
    ELSE IF shape = "unclosed" THEN <<"{">> \o Join(ms, <<",">>, <<":">>)
    ELSE IF shape = "comma" THEN <<"{">> \o Join(ms, <<",">>, <<":">>) \o <<",", "}">>
    ELSE <<"{">> \o Join(ms, <<",">>, <<":">>) \o <<"}", "}">>

Wrappers == {"block", "padded", "truncated", "asked", "bare"}

Wrap(wrapper, tag, body) ==
    IF wrapper = "block" THEN OpenTag(tag) \o body \o CloseTag(tag)
    ELSE IF wrapper = "padded"
    THEN <<"a", " ">> \o OpenTag(tag) \o <<"\n">> \o body \o <<" ">> \o CloseTag(tag) \o <<"a">>
    ELSE IF wrapper = "truncated" THEN OpenTag(tag) \o body
    ELSE IF wrapper = "asked" THEN OpenTag(QuestionTag) \o body \o CloseTag(QuestionTag)
    ELSE body

InitJson ==
    /\ StoreIdle
    /\ \E n \in 0..MaxMembers :
           \E ms \in [1..n -> JsonKeys \X ValueTexts] :
               \E body \in {Render(ms, shape) : shape \in Shapes} \cup ScalarTexts :
                   \E wrapper \in Wrappers, tag \in {CanvasConfigTag, StyleUpdateTag} :
                       xtext = Wrap(wrapper, tag, body)
    /\ xres = NoResult

SpecJson == InitJson /\ [][NextXml]_vars

(* Long texts: up to MaxLongTokens pieces of one of the token families, with
   letters before or after them that bring the text to just below, to, and
   just above the length up to which a preview shows a text whole. *)
MaxLongTokens == 2

Filler(n) == [k \in 1..n |-> "a"]

FillerLengths == {0, PreviewLimit - 1, PreviewLimit, PreviewLimit + 1}

InitLong ==
    /\ StoreIdle
    /\ \E family \in TokenFamilies, n \in 0..MaxLongTokens, len \in FillerLengths :
           \E ts \in [1..n -> family] :
               xtext \in {Flatten(ts) \o Filler(len), Filler(len) \o Flatten(ts)}
    /\ xres = NoResult

SpecLong == InitLong /\ [][NextXml]_vars

-----------------------------------------------------------------------------
(* services/gemini.py: the wrapper around the upstream service.  Bytes are
   sequences of numbers 0..255, base64 texts are sequences of characters. *)

B64Alphabet ==
    <<"A", "B", "C", "D", "E", "F", "G", "H", "I", "J", "K", "L", "M", "N", "O", "P",
      "Q", "R", "S", "T", "U", "V", "W", "X", "Y", "Z", "a", "b", "c", "d", "e", "f",
      "g", "h", "i", "j", "k", "l", "m", "n", "o", "p", "q", "r", "s", "t", "u", "v",
      "w", "x", "y", "z", "0", "1", "2", "3", "4", "5", "6", "7", "8", "9", "+", "/">>

B64Char(v) == B64Alphabet[v + 1]

IsB64Char(ch) == \E k \in 1..64 : B64Alphabet[k] = ch

B64Value(ch) == (CHOOSE k \in 1..64 : B64Alphabet[k] = ch) - 1

\* base64.b64encode(data).decode("utf-8")
RECURSIVE B64Encode(_)
B64Encode(data) ==
    IF data = <<>> THEN <<>>
    ELSE IF Len(data) = 1
    THEN <<B64Char(data[1] \div 4), B64Char((data[1] % 4) * 16), "=", "=">>
    ELSE IF Len(data) = 2
    THEN <<B64Char(data[1] \div 4),
           B64Char((data[1] % 4) * 16 + data[2] \div 16),
           B64Char((data[2] % 16) * 4), "=">>
    ELSE <<B64Char(data[1] \div 4),
           B64Char((data[1] % 4) * 16 + data[2] \div 16),
           B64Char((data[2] % 16) * 4 + data[3] \div 64),
           B64Char(data[3] % 64)>> \o B64Encode(SubSeq(data, 4, Len(data)))

(* binascii.a2b_base64 as base64.b64decode calls it (not strict): characters
   outside the alphabet are skipped; "=" ends the data once the current
   group of four has two characters and the padding completes it; a group
   left incomplete at the end is an error.  values: the 6-bit values read
   so far; quad: how many of the current group; pads: "=" seen since the
   last value. *)
RECURSIVE B64Scan(_, _, _, _)
B64Scan(text, i, values, pads) ==
    LET quad == Len(values) % 4
    IN  IF i > Len(text)
        THEN [raised |-> IF quad = 0 THEN "" ELSE "binascii.Error", values |-> values]
        ELSE IF text[i] = "="
        THEN IF quad >= 2 /\ quad + pads + 1 >= 4
             THEN [raised |-> "", values |-> values]
             ELSE B64Scan(text, i + 1, values, IF quad >= 2 THEN pads + 1 ELSE pads)
        ELSE IF IsB64Char(text[i])
        THEN B64Scan(text, i + 1, Append(values, B64Value(text[i])), 0)
        ELSE B64Scan(text, i + 1, values, pads)

\* the bytes that groups of four (at the end: two or three) 6-bit values hold
RECURSIVE B64Bytes(_)
B64Bytes(values) ==
    IF Len(values) < 2 THEN <<>>
    ELSE IF Len(values) = 2
    THEN <<values[1] * 4 + values[2] \div 16>>
    ELSE IF Len(values) = 3
    THEN <<values[1] * 4 + values[2] \div 16,
           (values[2] % 16) * 16 + values[3] \div 4>>
    ELSE <<values[1] * 4 + values[2] \div 16,
           (values[2] % 16) * 16 + values[3] \div 4,
           (values[3] % 4) * 64 + values[4]>> \o B64Bytes(SubSeq(values, 5, Len(values)))

\* base64.b64decode(text)
B64Decode(text) ==
    LET scan == B64Scan(text, 1, <<>>, 0)
    IN  [raised |-> scan.raised,
         data |-> IF scan.raised = "" THEN B64Bytes(scan.values) ELSE <<>>]

PngSignature == <<137, 80, 78, 71, 13, 10, 26, 10>>

JpegSoi == <<255, 216>>

Riff == <<82, 73, 70, 70>>

Webp == <<87, 69, 66, 80>>

Gif87a == <<71, 73, 70, 56, 55, 97>>

Gif89a == <<71, 73, 70, 56, 57, 97>>

\* data[:n]
Take(data, n) == SubSeq(data, 1, IF Len(data) < n THEN Len(data) ELSE n)

\* a plausible slip: the label the provider gave is trusted
DetectImageMimeTypeTrusting(data) == "image/png"

\* _detect_image_mime_type
DetectImageMimeType(data) ==
    IF Take(data, 8) = PngSignature THEN "image/png"
    ELSE IF Take(data, 2) = JpegSoi THEN "image/jpeg"
    ELSE IF Take(data, 4) = Riff /\ Len(data) > 12 /\ SubSeq(data, 9, 12) = Webp
    THEN "image/webp"
    ELSE IF Take(data, 6) \in {Gif87a, Gif89a} THEN "image/gif"
    ELSE "image/png"

(* The byte sequences: every prefix of a signature (of a RIFF header with
   the WEBP tag or another at offset 8), followed by up to MaxTailBytes more
   bytes. *)
MaxTailBytes == 1

Wave == <<87, 65, 86, 69>>

RiffSize == <<0, 0, 0, 0>>

Signatures ==
    {PngSignature, JpegSoi, Riff \o RiffSize \o Webp, Riff \o RiffSize \o Wave, Gif87a, Gif89a}

TailBytes == {0, 216}

InitSniff ==
    /\ StoreIdle
    /\ \E sig \in Signatures, k \in 0..12, n \in 0..MaxTailBytes :
           \E tail \in [1..n -> TailBytes] : xtext = Take(sig, k) \o tail
    /\ xres = NoResult

CallDetectImageMimeType ==
    /\ xres.fn = "none"
    /\ xres' = Result("_detect_image_mime_type", <<>>,
                      Returned(DetectImageMimeType(xtext), <<>>, <<>>))
    /\ UNCHANGED <<xtext, storeVars, lockVars, httpVars>>

NextSniff == CallDetectImageMimeType

SpecSniff == InitSniff /\ [][NextSniff]_vars

(* Optional values: None is "None" where a string is expected and <<"None">>
   where a text or a list is expected; `x or y` and `if x` take None and the
   empty value alike. *)
None == "None"

NoText == <<None>>

TruthyStr(x) == x # None /\ x # ""

TruthySeq(x) == x # NoText /\ x # <<>>

\* GeminiService.DEFAULT_IMAGE_MODEL
DEFAULT_IMAGE_MODEL == "gemini-2.5-flash-image"

\* GeminiService.default_model as main.py's lifespan sets it (GEMINI_MODEL unset)
DefaultModel == "gemini-3-pro-preview"

WrapperOps == {"query", "chat", "generate_image", "edit_image", "multimedia_query"}

\* the upstream request parts of the files: base64.b64decode of each, in
\* order; the first that does not decode raises
RECURSIVE FileParts(_)
FileParts(files) ==
    IF files = <<>> THEN [raised |-> "", parts |-> <<>>]
    ELSE LET file_data == B64Decode(files[1].data)
             rest == FileParts(Tail(files))
         IN  IF file_data.raised # "" THEN [raised |-> file_data.raised, parts |-> <<>>]
             ELSE IF rest.raised # "" THEN rest
             ELSE [raised |-> "",
                   parts |-> <<[data |-> file_data.data, mime_type |-> files[1].mime_type]>>
                                 \o rest.parts]

\* a plausible slip: the roles are sent as they come
ChatContentsSameRoles(messages) ==
    [i \in 1..Len(messages) |-> [role |-> messages[i].role, parts |-> <<messages[i].content>>]]

\* chat: one types.Content per message, "assistant" sent as "model"
ChatContents(messages) ==
    [i \in 1..Len(messages) |->
        [role |-> IF messages[i].role = "assistant" THEN "model" ELSE messages[i].role,
         parts |-> <<messages[i].content>>]]

\* `"IMAGE" in response_modalities`
HasImage(response_modalities) ==
    \E i \in 1..Len(response_modalities) : response_modalities[i] = "IMAGE"

\* a plausible slip: the caller's model wins over the image model
ModelNameCallerFirst(op, args, default_model) ==
    IF TruthyStr(args.model) THEN args.model
    ELSE IF op \in {"generate_image", "edit_image"} THEN DEFAULT_IMAGE_MODEL
    ELSE IF op = "multimedia_query" /\ HasImage(args.response_modalities)
    THEN DEFAULT_IMAGE_MODEL
    ELSE default_model

\* model_name of each operation
ModelName(op, args, default_model) ==
    IF op \in {"query", "chat"}
    THEN IF TruthyStr(args.model) THEN args.model ELSE default_model
    ELSE IF op \in {"generate_image", "edit_image"} THEN DEFAULT_IMAGE_MODEL
    ELSE IF TruthySeq(args.response_modalities) /\ HasImage(args.response_modalities)
    THEN DEFAULT_IMAGE_MODEL
    ELSE IF TruthyStr(args.model) THEN args.model
    ELSE default_model

\* response_modalities of the upstream request's config
ConfigModalities(op, args) ==
    IF op \in {"generate_image", "edit_image"} THEN <<"TEXT", "IMAGE">>
    ELSE IF op = "multimedia_query" /\ TruthySeq(args.response_modalities)
    THEN args.response_modalities
    ELSE NoText

\* contents of the upstream request
RequestContents(op, args, file_parts) ==
    IF op \in {"query", "generate_image"} THEN <<[role |-> "user", parts |-> <<args.prompt>>]>>
    ELSE IF op = "chat" THEN ChatContents(args.messages)
    ELSE IF op = "edit_image"
    THEN <<[role |-> "user",
            parts |-> <<args.prompt, [data |-> args.image_data,
                                      mime_type |-> args.image_mime_type]>>]>>
    ELSE <<[role |-> "user", parts |-> <<args.prompt>> \o file_parts]>>

(* An operation up to its `await self.client.aio.models.generate_content`:
   the request it sends, or the exception raised before it sends one. *)
WrapperRequest(op, args, default_model) ==
    LET decoded == IF op = "multimedia_query" /\ args.files # <<>>
                   THEN FileParts(args.files)
                   ELSE [raised |-> "", parts |-> <<>>]
    IN  IF decoded.raised # "" THEN [raised |-> decoded.raised]
        ELSE [raised |-> "",
              model |-> ModelName(op, args, default_model),
              contents |-> RequestContents(op, args, decoded.parts),
              response_modalities |-> ConfigModalities(op, args)]

\* the parts of all candidates, in order
RECURSIVE AllParts(_)
AllParts(candidates) ==
    IF candidates = <<>> THEN <<>> ELSE Head(candidates) \o AllParts(Tail(candidates))

\* a plausible slip: the first part with text wins
RECURSIVE FirstText(_)
FirstText(parts) ==
    IF parts = <<>> THEN NoText
    ELSE IF TruthySeq(parts[1].text) THEN parts[1].text
    ELSE FirstText(Tail(parts))

\* the text the extraction loop leaves in `text`: of the last part with text
RECURSIVE LastText(_)
LastText(parts) ==
    IF parts = <<>> THEN NoText
    ELSE IF TruthySeq(parts[Len(parts)].text) THEN parts[Len(parts)].text
    ELSE LastText(SubSeq(parts, 1, Len(parts) - 1))

\* the `images` list the extraction loop builds
RECURSIVE Images(_)
Images(parts) ==
    IF parts = <<>> THEN <<>>
    ELSE (IF parts[1].data # <<>>
          THEN <<[data |-> B64Encode(parts[1].data),
                  mime_type |-> DetectImageMimeType(parts[1].data)]>>
          ELSE <<>>) \o Images(Tail(parts))

\* response.text of the SDK: the text parts of the first candidate joined,
\* None when it has none
RECURSIVE JoinedText(_)
JoinedText(parts) ==
    IF parts = <<>> THEN <<>>
    ELSE (IF parts[1].text # NoText THEN parts[1].text ELSE <<>>) \o JoinedText(Tail(parts))

ResponseText(response) ==
    IF response.candidates = <<>> THEN NoText
    ELSE IF \A i \in 1..Len(response.candidates[1]) : response.candidates[1][i].text = NoText
    THEN NoText
    ELSE JoinedText(response.candidates[1])

\* a plausible slip: a failed call is answered with an empty result
WrapperResultSwallowing(op, model_name, failure, response) ==
    IF failure # ""
    THEN [raised |-> "", text |-> NoText, images |-> <<>>, model |-> model_name, usage |-> None]
    ELSE [raised |-> "", text |-> ResponseText(response), images |-> <<>>,
          model |-> model_name, usage |-> response.usage]

(* An operation from the end of its await on: `raise` of the upstream
   failure, or the GeminiResult / ImageResult / MediaResult it returns. *)
WrapperResult(op, model_name, failure, response) ==
    IF failure # ""
    THEN [raised |-> failure, text |-> NoText, images |-> <<>>, model |-> "", usage |-> None]
    ELSE IF op \in {"query", "chat"}
    THEN [raised |-> "", text |-> ResponseText(response), images |-> <<>>,
          model |-> model_name, usage |-> response.usage]
    ELSE [raised |-> "", text |-> LastText(AllParts(response.candidates)),
          images |-> Images(AllParts(response.candidates)),
          model |-> model_name, usage |-> response.usage]

-----------------------------------------------------------------------------
(* The HTTP handlers and the wrapper as one request each: a request is
   received and runs up to its await on the upstream call (or ends before
   it); the upstream call returns or fails and the request runs to its end.
   Between two awaits on the upstream call nothing else runs: the store's
   lock is free whenever a coroutine reaches it, so no store operation
   suspends. *)

MaxRequests == 2

Hi == <<"h", "i">>

PngBytes == PngSignature \o <<0>>

JpegBytes == JpegSoi \o <<255>>

OtherBytes == <<1, 2, 3>>

\* "base64data": ten characters of the alphabet, no padding
NotBase64 == <<"b", "a", "s", "e", "6", "4", "d", "a", "t", "a">>

NoArgs ==
    [prompt |-> <<>>, model |-> None, messages |-> <<>>, files |-> <<>>,
     response_modalities |-> NoText, image_data |-> <<>>, image_mime_type |-> ""]

ChatRoutes == {"/api/chat/query", "/api/chat/completions"}

ImageRoutes == {"/api/image/generate", "/api/image/edit"}

MediaRoutes == {"/api/media/query"}

SessionRoutes == {"/api/onboard", "/api/style"}

Routes == ChatRoutes \cup ImageRoutes \cup MediaRoutes \cup SessionRoutes

\* str(e) of an exception of a library: one element named after its class
StrOf(e) == <<e>>

\* str(e) of the AttributeError of an attribute read on an object of class cls
NoAttribute(cls, attr) == <<"'", cls, "' object has no attribute '", attr, "'">>

NotInitialized == <<"Gemini service not initialized">>

\* str(e) of a starlette HTTPException: "{status_code}: {detail}"
HttpExceptionText(status, detail) == <<status, ": ">> \o detail

Calls(op, args) == [raised |-> "", text |-> <<>>, op |-> op, args |-> args]

Throws(e, text) == [raised |-> e, text |-> text, op |-> "", args |-> NoArgs]

\* config.get_model: every alias is the same model id
GetModel(alias) == "gemini-3-pro-preview"

\* `if not gemini: raise HTTPException(status_code=503, ...)`, then the call
GuardedCall(gemini, c) ==
    IF gemini = None THEN Throws("HTTPException", NotInitialized) ELSE c

\* `gemini.<op>(...)` where gemini may be None: the attribute read raises
MethodCall(gemini, c) ==
    IF gemini = None
    THEN Throws("AttributeError", NoAttribute("NoneType", c.op))
    ELSE c

\* image.py generate_image up to the call: the callee, then the arguments;
\* request.aspect_ratio is not a field of ImageGenerateRequest
ImageGenerateCall(body, gemini) ==
    IF gemini = None
    THEN Throws("AttributeError", NoAttribute("NoneType", "generate_image"))
    ELSE Throws("AttributeError", NoAttribute("ImageGenerateRequest", "aspect_ratio"))

\* image.py edit_image up to the call: base64.b64decode(request.image) first
ImageEditCall(body, gemini) ==
    LET image_data == B64Decode(body.image)
    IN  IF image_data.raised # "" THEN Throws(image_data.raised, StrOf(image_data.raised))
        ELSE MethodCall(gemini,
                 Calls("edit_image",
                       [NoArgs EXCEPT !.prompt = body.prompt,
                                      !.image_data = image_data.data,
                                      !.image_mime_type = body.mime_type,
                                      !.model = IF TruthyStr(body.model) THEN body.model
                                                ELSE "gemini-2.5-flash-image"]))

\* media.py multimedia_query up to the call (files: None and [] are both <<>>,
\* the wrapper's `if files:` takes them alike)
MediaQueryCall(body, gemini) ==
    MethodCall(gemini,
        Calls("multimedia_query",
              [NoArgs EXCEPT !.prompt = body.prompt,
                             !.files = body.files,
                             !.model = body.model,
                             !.response_modalities = body.response_modalities]))

\* chat.py simple_query up to the call
SimpleQueryCall(body, gemini) ==
    MethodCall(gemini, Calls("query", [NoArgs EXCEPT !.prompt = body.prompt,
                                                     !.model = body.model]))

\* chat.py chat_completions up to the call
ChatCompletionsCall(body, gemini) ==
    MethodCall(gemini, Calls("chat", [NoArgs EXCEPT !.messages = body.messages,
                                                    !.model = body.model]))

\* load_and_fill_prompt(template, conversation_history=format_history(history),
\* user_message=message): the prompt is what the template makes of these
FilledPrompt(template, history, message) ==
    [template |-> template, conversation_history |-> history, user_message |-> message]

\* onboard.py / style.py from get_or_create's return up to the call
SessionCall(route, body, history) ==
    Calls("query",
          [NoArgs EXCEPT !.prompt = FilledPrompt(IF route = "/api/onboard" THEN "onboard"
                                                 ELSE "style", history, body.message),
                         !.model = GetModel(IF route = "/api/onboard" THEN "pro" ELSE "flash")])

\* a handler up to its call of the wrapper
HandlerCall(route, body, gemini, history) ==
    IF route = "/api/chat/query" THEN SimpleQueryCall(body, gemini)
    ELSE IF route = "/api/chat/completions" THEN ChatCompletionsCall(body, gemini)
    ELSE IF route = "/api/image/generate" THEN ImageGenerateCall(body, gemini)
    ELSE IF route = "/api/image/edit" THEN ImageEditCall(body, gemini)
    ELSE IF route = "/api/media/query" THEN MediaQueryCall(body, gemini)
    ELSE GuardedCall(gemini, SessionCall(route, body, history))

\* repr() of a decoded JSON value; the members of an object in the dict's
\* order (the model keeps none: exact for objects of at most one member)
RECURSIVE PyRepr(_), ReprMembers(_, _)
PyRepr(value) ==
    IF value.kind = "number"
    THEN IF value.v < 10 THEN <<Digits[value.v + 1]>>
         ELSE PyRepr(JsonNumber(value.v \div 10)) \o <<Digits[(value.v % 10) + 1]>>
    ELSE IF value.kind = "string"
    THEN IF Contains(value.v, <<"'">>) /\ ~Contains(value.v, <<"\"">>)
         THEN <<"\"">> \o value.v \o <<"\"">>
         ELSE <<"'">> \o value.v \o <<"'">>
    ELSE <<"{">> \o ReprMembers(value.v, DOMAIN value.v) \o <<"}">>

ReprMembers(members, keys) ==
    IF keys = {} THEN <<>>
    ELSE LET k == CHOOSE key \in keys : TRUE
         IN  PyRepr(JsonString(k)) \o <<":", " ">> \o PyRepr(members[k])
                 \o (IF keys = {k} THEN <<>> ELSE <<",", " ">> \o ReprMembers(members, keys \ {k}))

Answer(status, detail, text, images, model, type, session_id, data) ==
    [status |-> status, detail |-> detail, text |-> text, images |-> images,
     model |-> model, type |-> type, session_id |-> session_id, data |-> data]

\* a plausible slip: every handler answers a failure with 503
ErrorResponseUnavailable(route, e, text) ==
    Answer(503, text, NoText, <<>>, "", "", NoneId, <<>>)

(* `except Exception as e: raise HTTPException(...)` of each handler: 500
   with str(e) in chat.py, image.py and media.py; 503 with "LLM error: "
   before str(e) in onboard.py; in style.py an HTTPException is re-raised
   as it is and anything else becomes 503 with "Style chat error: ". *)
ErrorResponse(route, e, text) ==
    IF route = "/api/onboard"
    THEN Answer(503, <<"LLM error: ">> \o (IF e = "HTTPException"
                                           THEN HttpExceptionText("503", text) ELSE text),
                NoText, <<>>, "", "", NoneId, <<>>)
    ELSE IF route = "/api/style"
    THEN Answer(503, IF e = "HTTPException" THEN text ELSE <<"Style chat error: ">> \o text,
                NoText, <<>>, "", "", NoneId, <<>>)
    ELSE Answer(500, text, NoText, <<>>, "", "", NoneId, <<>>)

\* the response model of each handler built from the wrapper's result:
\* `text: str` of SimpleQueryResponse and `content: str` of Message refuse None
ResultResponse(route, result) ==
    IF route \in ChatRoutes /\ result.text = NoText
    THEN ErrorResponse(route, "ValidationError", StrOf("ValidationError"))
    ELSE Answer(200, <<>>, result.text, result.images, result.model, "", NoneId, <<>>)

\* parse_onboard_response / parse_style_response on result.text; on None the
\* first `in` raises TypeError
Interpreted(route, text) ==
    IF text = NoText
    THEN Raised("TypeError", [cause |-> "", attached |-> {},
                              message |-> <<"argument of type 'NoneType' is not iterable">>])
    ELSE IF route = "/api/onboard" THEN ParseOnboardResponse(text)
    ELSE ParseStyleResponse(text)

\* what the handler stores as the assistant's message: onboard the content,
\* str() of it when it is not a str; style parsed.get("explanation", "")
AssistantContent(route, parsed) ==
    IF parsed.type = "question" THEN parsed.content
    ELSE IF route = "/api/onboard"
    THEN (IF parsed.fields.kind = "string" THEN parsed.fields.v ELSE PyRepr(parsed.fields))
    ELSE IF "explanation" \in DOMAIN parsed.fields
    THEN (IF parsed.fields["explanation"].kind = "string"
          THEN parsed.fields["explanation"].v ELSE parsed.fields["explanation"])
    ELSE <<>>

\* OnboardResponse(type, content, session_id) / StyleResponse(type, card_theme,
\* canvas_theme, physics, explanation, session_id)
SessionResponse(route, parsed, content, session_id) ==
    Answer(200, <<>>, content, <<>>, "", parsed.type, session_id, parsed.fields)

(* onboard.py / style.py after interpretation gave parsed: on a failure the
   error response; otherwise the two appends and the response. *)
Appended(route, message, parsed, session_id, S, L, D, t) ==
    LET content == AssistantContent(route, parsed)
        user == AddMessageOp(S, L, D, session_id, "user", message, t)
        assistant == AddMessageOp(user.S, user.L, user.D, session_id, "assistant", content, t)
    IN  IF parsed.raised # ""
        THEN [response |-> ErrorResponse(route, parsed.raised, parsed.exc.message),
              S |-> S, L |-> L, D |-> D]
        ELSE [response |-> SessionResponse(route, parsed, content, session_id),
              S |-> assistant.S, L |-> assistant.L, D |-> assistant.D]

(* onboard.py / style.py after the wrapper returned: interpretation, the two
   appends, the response; the store after them. *)
SessionFinish(route, message, result, session_id, S, L, D, t) ==
    Appended(route, message, Interpreted(route, result.text), session_id, S, L, D, t)

-----------------------------------------------------------------------------
(* Requests and upstream responses *)

CallerModels == {None, "", "gemini-2.5-flash"}

Modalities == {NoText, <<"TEXT">>, <<"TEXT", "IMAGE">>}

File(data) == [data |-> data, mime_type |-> "image/png"]

FileLists ==
    {<<>>, <<File(B64Encode(PngBytes)), File(B64Encode(OtherBytes))>>,
     <<File(B64Encode(JpegBytes)), File(NotBase64)>>}

ChatHistories ==
    {<<Message("user", Hi)>>,
     <<Message("user", Hi), Message("assistant", <<"y", "o">>), Message("user", Hi)>>}

\* the bodies each route accepts (request validation passed)
Bodies(route) ==
    IF route = "/api/chat/query"
    THEN {[prompt |-> Hi, model |-> m] : m \in CallerModels}
    ELSE IF route = "/api/chat/completions"
    THEN {[messages |-> h, model |-> m] : h \in ChatHistories, m \in {None, "gemini-2.5-flash"}}
    ELSE IF route = "/api/image/generate"
    THEN {[prompt |-> Hi, model |-> m, aspect_ratio |-> a] :
              m \in {None, "gemini-2.5-flash"}, a \in {None, "16:9"}}
    ELSE IF route = "/api/image/edit"
    THEN {[prompt |-> Hi, image |-> i, mime_type |-> "image/png", model |-> m] :
              i \in {B64Encode(PngBytes), NotBase64}, m \in {None, "gemini-2.5-flash"}}
    ELSE IF route = "/api/media/query"
    THEN {[prompt |-> Hi, files |-> f, response_modalities |-> rm, model |-> m] :
              f \in FileLists, rm \in Modalities, m \in CallerModels}
    ELSE {[session_id |-> sid, message |-> Hi] : sid \in ClientIds}

\* the arguments of a direct call of each wrapper operation
ArgsOf(op) ==
    IF op \in {"query", "generate_image"}
    THEN {[NoArgs EXCEPT !.prompt = Hi, !.model = m] : m \in CallerModels}
    ELSE IF op = "chat"
    THEN {[NoArgs EXCEPT !.messages = h, !.model = m] :
              h \in ChatHistories, m \in {None, "gemini-2.5-flash"}}
    ELSE IF op = "edit_image"
    THEN {[NoArgs EXCEPT !.prompt = Hi, !.image_data = PngBytes,
                         !.image_mime_type = "image/png", !.model = m] : m \in CallerModels}
    ELSE {[NoArgs EXCEPT !.prompt = Hi, !.files = f, !.response_modalities = rm,
                         !.model = m] :
              f \in FileLists, rm \in Modalities, m \in CallerModels}

TextPart(text) == [text |-> text, data |-> <<>>]

ImagePart(data) == [text |-> NoText, data |-> data]

QuestionReply == OpenTag(QuestionTag) \o Hi \o CloseTag(QuestionTag)

ConfigReply ==
    OpenTag(CanvasConfigTag) \o <<"{", "\"", "b", "\"", ":", "\"", "c", "\"", "}">>
        \o CloseTag(CanvasConfigTag)

UpdateReply ==
    OpenTag(StyleUpdateTag)
        \o <<"{", "\"">> \o ExplanationKey \o <<"\"", ":", "\"", "o", "k", "\"", ",",
             "\"">> \o PhysicsKey \o <<"\"", ":", "7", "}">>
        \o CloseTag(StyleUpdateTag)

\* what the upstream service may answer: candidates of parts, usage metadata
UpstreamResponses ==
    {[candidates |-> c, usage |-> u] :
        c \in {<<>>,
               <<<<TextPart(QuestionReply)>>>>,
               <<<<TextPart(ConfigReply)>>>>,
               <<<<TextPart(UpdateReply)>>>>,
               <<<<TextPart(Hi)>>>>,
               <<<<ImagePart(PngBytes)>>>>,
               <<<<TextPart(Hi), ImagePart(JpegBytes)>>, <<ImagePart(OtherBytes), TextPart(<<"y", "o">>)>>>>},
        u \in {None}}

UpstreamFailures == {"ServerError", "TimeoutError"}

Free(r) == req[r].at \in {"idle", "done"}

Begin(caller, op, args, w, presented, session_id, message) ==
    [NoRequest EXCEPT !.at = "awaiting", !.caller = caller, !.op = op, !.args = args,
                      !.sent = <<w>>, !.presented = presented, !.session_id = session_id,
                      !.message = message]

HttpFrame == UNCHANGED <<now, held, ret, log, returned, service, lockVars, xmlVars>>

\* the request is sent upstream (w), or converting the arguments raised
Sent(r, caller, c, presented, session_id, message, w) ==
    req' = [req EXCEPT ![r] =
               IF w.raised # ""
               THEN [NoRequest EXCEPT !.at = "done", !.caller = caller, !.op = c.op,
                                      !.args = c.args, !.failure = w.raised,
                                      !.outcome.raised = w.raised,
                                      !.response =
                                          IF caller = "direct" THEN NoResponse
                                          ELSE ErrorResponse(caller, w.raised, StrOf(w.raised))]
               ELSE Begin(caller, c.op, c.args, w, presented, session_id, message)]

\* the handler calls the wrapper (c), or raised before it did
Called(r, route, c, presented, session_id, message) ==
    IF c.raised # ""
    THEN req' = [req EXCEPT ![r] =
                    [NoRequest EXCEPT !.at = "done", !.caller = route, !.failure = c.raised,
                                      !.response = ErrorResponse(route, c.raised, c.text)]]
    ELSE Sent(r, route, c, presented, session_id, message,
              WrapperRequest(c.op, c.args, DefaultModel))

\* onboard / style with a service: get_or_create returned g
Entered(r, route, body, g) ==
    /\ sessions' = g.S
    /\ lists' = Collect(g.S, g.L, g.D, NoHeld).L
    /\ dicts' = Collect(g.S, g.L, g.D, NoHeld).D
    /\ issued' = IF Known(sessions, body.session_id) THEN issued ELSE issued + 1
    /\ Called(r, route, HandlerCall(route, body, service, ListValue(g.L, g.D, g.history)),
              body.session_id, g.id, body.message)

\* a wrapper operation called directly, up to its await on the upstream call
DirectCall(r, op, args) ==
    /\ Free(r)
    /\ service # None
    /\ steps < MaxRequests
    /\ steps' = steps + 1
    /\ Sent(r, "direct", Calls(op, args), NoneId, NoneId, <<>>,
            WrapperRequest(op, args, DefaultModel))
    /\ UNCHANGED <<sessions, lists, dicts, issued>>
    /\ HttpFrame

\* a handler from the request's arrival up to its await on the upstream call
HandlerReceive(r, route, body) ==
    /\ Free(r)
    /\ steps < MaxRequests
    /\ steps' = steps + 1
    /\ IF route \in SessionRoutes /\ service # None
       THEN Entered(r, route, body,
                    GetOrCreateOp(sessions, lists, dicts, body.session_id, Uuid(issued + 1), now))
       ELSE /\ Called(r, route, HandlerCall(route, body, service, <<>>), NoneId, NoneId, <<>>)
            /\ UNCHANGED <<sessions, lists, dicts, issued>>
    /\ HttpFrame

\* the request ends: what its upstream call did, the wrapper's result, the answer
Done(q, upstream, reply, result, response) ==
    [q EXCEPT !.at = "done", !.upstream = upstream, !.reply = reply,
              !.failure = result.raised, !.outcome = result, !.response = response]

\* onboard / style end with f, the answer and the store after the appends
Stored(r, upstream, reply, result, f) ==
    /\ req' = [req EXCEPT ![r] = Done(req[r], upstream, reply, result, f.response)]
    /\ sessions' = f.S
    /\ lists' = Collect(f.S, f.L, f.D, NoHeld).L
    /\ dicts' = Collect(f.S, f.L, f.D, NoHeld).D

\* the request runs to its end with the wrapper's result
Finished(r, upstream, reply, result) ==
    IF req[r].caller \in SessionRoutes /\ result.raised = ""
    THEN Stored(r, upstream, reply, result,
                SessionFinish(req[r].caller, req[r].message, result, req[r].session_id,
                              sessions, lists, dicts, now))
    ELSE /\ req' = [req EXCEPT ![r] =
                       Done(req[r], upstream, reply, result,
                            IF req[r].caller = "direct" THEN NoResponse
                            ELSE IF result.raised # ""
                            THEN ErrorResponse(req[r].caller, result.raised, StrOf(result.raised))
                            ELSE ResultResponse(req[r].caller, result))]
         /\ UNCHANGED <<sessions, lists, dicts>>

\* the rest of a request once its upstream call failed (failure # "") or
\* returned response
Finish(r, failure, response) ==
    /\ req[r].at = "awaiting"
    /\ Finished(r, IF failure # "" THEN failure ELSE "returned", response,
                WrapperResult(req[r].op, req[r].sent[1].model, failure, response))
    /\ UNCHANGED <<issued, steps>>
    /\ HttpFrame

UpstreamFails(r) == \E e \in UpstreamFailures : Finish(r, e, [candidates |-> <<>>, usage |-> None])

UpstreamReturns(r) == \E response \in UpstreamResponses : Finish(r, "", response)

InitHttp ==
    /\ InitLock
    /\ InitNoText
    /\ service \in {"ready", None}
    /\ req = [r \in Reqs |-> NoRequest]
    /\ sessions = <<>>
    /\ lists = <<>>
    /\ dicts = <<>>
    /\ now = 0
    /\ issued = 0
    /\ held = NoHeld
    /\ ret = Ret("init", NoneId, "", "", NoneId, <<>>, 0, 0)
    /\ log = <<>>
    /\ returned = <<>>
    /\ steps = 0

NextHttp ==
    \/ \E op \in WrapperOps : \E args \in ArgsOf(op) : DirectCall("r1", op, args)
    \/ \E route \in Routes : \E body \in Bodies(route) : HandlerReceive("r1", route, body)
    \/ UpstreamFails("r1")
    \/ UpstreamReturns("r1")

SpecHttp == InitHttp /\ [][NextHttp]_vars

-----------------------------------------------------------------------------
(* Concurrent onboard / style requests on one event loop.

   A handler is a coroutine; the event loop runs one coroutine at a time
   and takes another only where the running one suspends: at the upstream
   call, or at `async with self._lock` when the lock is held.  A request is
   at the statement it is about to run (get_or_create, add_user,
   add_assistant), inside the body of a store operation (in_...), suspended
   at the lock (wait_...), or awaiting the upstream call. *)

MaxAppRequests == 2

MaxClock == 61

StoreCalls == {"get_or_create", "add_user", "add_assistant"}

\* the request is in the body of the store operation, the lock taken
Inside(c) == IF c = "get_or_create" THEN "in_get_or_create"
             ELSE IF c = "add_user" THEN "in_add_user" ELSE "in_add_assistant"

\* the request is suspended in `async with self._lock`
Waiting(c) == IF c = "get_or_create" THEN "wait_get_or_create"
              ELSE IF c = "add_user" THEN "wait_add_user" ELSE "wait_add_assistant"

Bodies3 == {Inside(c) : c \in StoreCalls}

WaitingAt == {Waiting(c) : c \in StoreCalls}

\* the coroutine of r has the event loop
Running(r) == req[r].at \in StoreCalls \cup Bodies3

\* the event loop can run r: no other coroutine is running
CanRun(r) == \A q \in Reqs \ {r} : ~Running(q)

\* a plausible slip: entering `async with self._lock` always yields to the loop
AcquireAlwaysSuspends(l) == TRUE

\* asyncio.Lock.acquire() suspends the caller only when the lock is taken
AcquireSuspends(l) == l

\* a plausible slip: the lock is still held when the operation returns
LockKept(l) == l

\* leaving `async with self._lock` releases the lock
LockAfter(l) == FALSE

AppIds == {NoneId, UnknownId} \cup 1..issued

AppResponses ==
    {[candidates |-> c, usage |-> None] :
         c \in {<<<<TextPart(QuestionReply)>>>>,
                <<<<TextPart(ConfigReply)>>>>,
                <<<<TextPart(UpdateReply)>>>>}}

AppFrame == UNCHANGED <<held, ret, log, returned, service, pc, call, seq, xmlVars>>

\* onboard.py:28-31 / style.py:35-38: the request arrives; without a
\* service it is answered 503 at once
AppReceive(r, route, body) ==
    /\ Free(r)
    /\ CanRun(r)
    /\ steps < MaxAppRequests
    /\ steps' = steps + 1
    /\ IF service = None
       THEN Called(r, route, HandlerCall(route, body, service, <<>>), NoneId, NoneId, <<>>)
       ELSE req' = [req EXCEPT ![r] =
                       [NoRequest EXCEPT !.at = "get_or_create", !.caller = route,
                                         !.presented = body.session_id,
                                         !.message = body.message]]
    /\ UNCHANGED <<sessions, lists, dicts, now, issued, locked>>
    /\ AppFrame

\* `async with self._lock:` of the store operation r is about to run, or is
\* suspended at
AcquireLock(r) ==
    \E c \in StoreCalls :
        /\ req[r].at \in {c, Waiting(c)}
        /\ CanRun(r)
        /\ IF req[r].at = c /\ AcquireSuspends(locked)
           THEN /\ req' = [req EXCEPT ![r].at = Waiting(c)]
                /\ UNCHANGED locked
           ELSE /\ ~locked
                /\ locked' = TRUE
                /\ req' = [req EXCEPT ![r].at = Inside(c)]
        /\ UNCHANGED <<sessions, lists, dicts, now, issued, steps>>
        /\ AppFrame

\* the body of get_or_create and the handler up to its await on the
\* upstream call (onboard.py:34-49, style.py:41-66)
GetOrCreateBody(r) ==
    /\ req[r].at = "in_get_or_create"
    /\ Entered(r, req[r].caller,
               [session_id |-> req[r].presented, message |-> req[r].message],
               GetOrCreateOp(sessions, lists, dicts, req[r].presented, Uuid(issued + 1), now))
    /\ locked' = LockAfter(locked)
    /\ UNCHANGED <<now, steps>>
    /\ AppFrame

\* a plausible slip: the messages are stored before the reply is interpreted
ResumedUnchecked(r, upstream, reply, result, parsed) ==
    req' = [req EXCEPT ![r] =
               IF result.raised # ""
               THEN Done(req[r], upstream, reply, result,
                         ErrorResponse(req[r].caller, result.raised, StrOf(result.raised)))
               ELSE [req[r] EXCEPT !.at = "add_user", !.upstream = upstream,
                                   !.reply = reply, !.outcome = result,
                                   !.parsed = parsed]]

\* the request goes on after the upstream call: the wrapper's result and its
\* interpretation (onboard.py:49-53, style.py:66-70)
Resumed(r, upstream, reply, result, parsed) ==
    req' = [req EXCEPT ![r] =
               IF result.raised # ""
               THEN Done(req[r], upstream, reply, result,
                         ErrorResponse(req[r].caller, result.raised, StrOf(result.raised)))
               ELSE IF parsed.raised # ""
               THEN Done(req[r], upstream, reply, result,
                         ErrorResponse(req[r].caller, parsed.raised, parsed.exc.message))
               ELSE [req[r] EXCEPT !.at = "add_user", !.upstream = upstream,
                                   !.reply = reply, !.outcome = result,
                                   !.parsed = parsed]]

AppFinish(r, failure, response) ==
    /\ req[r].at = "awaiting"
    /\ CanRun(r)
    /\ Resumed(r, IF failure # "" THEN failure ELSE "returned", response,
               WrapperResult(req[r].op, req[r].sent[1].model, failure, response),
               Interpreted(req[r].caller,
                           WrapperResult(req[r].op, req[r].sent[1].model, failure, response).text))
    /\ UNCHANGED <<sessions, lists, dicts, now, issued, steps, locked>>
    /\ AppFrame

AppUpstreamFails(r) == AppFinish(r, "ServerError", [candidates |-> <<>>, usage |-> None])

AppUpstreamReturns(r) == \E response \in AppResponses : AppFinish(r, "", response)

\* the store after an add_message that gave a
AppStored(a) ==
    /\ sessions' = a.S
    /\ lists' = Collect(a.S, a.L, a.D, NoHeld).L
    /\ dicts' = Collect(a.S, a.L, a.D, NoHeld).D

\* the body of add_message(session_id, "user", request_data.message)
\* (onboard.py:56, style.py:73)
AddUserBody(r) ==
    /\ req[r].at = "in_add_user"
    /\ AppStored(AddMessageOp(sessions, lists, dicts, req[r].session_id, "user",
                              req[r].message, now))
    /\ req' = [req EXCEPT ![r].at = "add_assistant",
                          ![r].user_at =
                              IF Present(sessions, req[r].session_id)
                              THEN Len(lists[sessions[req[r].session_id].messages]) + 1
                              ELSE 0]
    /\ locked' = LockAfter(locked)
    /\ UNCHANGED <<now, issued, steps>>
    /\ AppFrame

\* the body of add_message(session_id, "assistant", ...) and the response
\* (onboard.py:57-68, style.py:74-85)
AddAssistantBody(r) ==
    /\ req[r].at = "in_add_assistant"
    /\ AppStored(AddMessageOp(sessions, lists, dicts, req[r].session_id, "assistant",
                              AssistantContent(req[r].caller, req[r].parsed), now))
    /\ req' = [req EXCEPT ![r].at = "done",
                          ![r].response =
                              SessionResponse(req[r].caller, req[r].parsed,
                                              AssistantContent(req[r].caller, req[r].parsed),
                                              req[r].session_id)]
    /\ locked' = LockAfter(locked)
    /\ UNCHANGED <<now, issued, steps>>
    /\ AppFrame

\* the clock advances by a minute more than the TTL
AppTick ==
    /\ now + TtlMinutes + 1 <= MaxClock
    /\ now' = now + TtlMinutes + 1
    /\ UNCHANGED <<sessions, lists, dicts, issued, steps, locked, req>>
    /\ AppFrame

\* cleanup_expired() called from outside the handlers while no coroutine
\* runs: the lock is free, the whole operation runs without suspending
Sweep ==
    /\ \A r \in Reqs : ~Running(r)
    /\ ~AcquireSuspends(locked)
    /\ sessions' = CleanupOp(sessions, now).S
    /\ sessions' # sessions
    /\ lists' = Collect(sessions', lists, dicts, NoHeld).L
    /\ dicts' = Collect(sessions', lists, dicts, NoHeld).D
    /\ locked' = LockAfter(locked)
    /\ UNCHANGED <<now, issued, steps, req>>
    /\ AppFrame

NextApp ==
    \/ \E r \in Reqs, route \in SessionRoutes, sid \in AppIds :
           AppReceive(r, route, [session_id |-> sid, message |-> Hi])
    \/ \E r \in Reqs : AcquireLock(r)
    \/ \E r \in Reqs : GetOrCreateBody(r)
    \/ \E r \in Reqs : AppUpstreamFails(r)
    \/ \E r \in Reqs : AppUpstreamReturns(r)
    \/ \E r \in Reqs : AddUserBody(r)
    \/ \E r \in Reqs : AddAssistantBody(r)
    \/ AppTick

\* the application as it runs: nothing calls cleanup_expired
SpecApp == InitHttp /\ [][NextApp]_vars

\* the application with a caller of cleanup_expired beside it
SpecSweep == InitHttp /\ [][NextApp \/ Sweep]_vars

-----------------------------------------------------------------------------
(* Properties of the extractor and the interpreters (specification SpecXml) *)

\* sub occurs in s at index i
OccursAt(s, sub, i) ==
    /\ i >= 0
    /\ i + Len(sub) <= Len(s)
    /\ \A k \in 1..Len(sub) : s[i + k] = sub[k]

\* the indices at which <tag>, and at which </tag>, occurs in s
Opens(s, tag) == {i \in 0..Len(s) : OccursAt(s, OpenTag(tag), i)}

Closes(s, tag) == {j \in 0..Len(s) : OccursAt(s, CloseTag(tag), j)}

\* among the closing delimiters C, those after the opening delimiter at i
After(C, tag, i) == {j \in C : j >= i + Len(OpenTag(tag))}

\* the pairs <<i, j>>: i in O is where the first <tag> starts, j in C where
\* the first </tag> after it starts
FirstBlockIn(O, C, tag) ==
    {<<i, j>> \in O \X C :
        /\ \A k \in O : i <= k
        /\ j \in After(C, tag, i)
        /\ \A k \in After(C, tag, i) : j <= k}

FirstBlocks(s, tag) == FirstBlockIn(Opens(s, tag), Closes(s, tag), tag)

\* v is raw without its leading and trailing whitespace
IsStripOf(v, raw) ==
    \E i \in 0..(Len(raw) - Len(v)) :
        /\ v = Slice(raw, i, i + Len(v))
        /\ \A k \in 1..i : raw[k] \in Whitespace
        /\ \A k \in (i + Len(v) + 1)..Len(raw) : raw[k] \in Whitespace
        /\ v = <<>> \/ (v[1] \notin Whitespace /\ v[Len(v)] \notin Whitespace)

Inner(s, tag, i, j) == Slice(s, i + Len(OpenTag(tag)), j)

\* s[a:b] holds neither a <tag> (they start at O) nor a </tag> (at C)
Plain(O, C, tag, a, b) ==
    /\ \A k \in O : ~(a <= k /\ k + Len(OpenTag(tag)) <= b)
    /\ \A k \in C : ~(a <= k /\ k + Len(CloseTag(tag)) <= b)

\* some <tag> is followed by a </tag>
HasBlock(s, tag) ==
    LET C == Closes(s, tag)
    IN  \E i \in Opens(s, tag) : After(C, tag, i) # {}

\* C8: parse_xml_content returns a value exactly when the first <tag> is
\* followed by a </tag>, and the value is the text between the end of that
\* first <tag> and the start of the first </tag> after it, without its
\* leading and trailing whitespace; in particular for a text p <tag> c </tag> s
\* whose p, c and s hold neither delimiter the value is c stripped.
C8_ExtractFirstBlockStripped ==
    xres.fn = "parse_xml_content" =>
        LET O == Opens(xtext, xres.tag)
            C == Closes(xtext, xres.tag)
            first == FirstBlockIn(O, C, xres.tag)
        IN  /\ xres.outcome = "return" => first # {}
            /\ \A b \in first :
                   /\ xres.outcome = "return"
                   /\ IsStripOf(xres.content, Inner(xtext, xres.tag, b[1], b[2]))
            /\ \A i \in O : \A j \in After(C, xres.tag, i) :
                   (/\ Plain(O, C, xres.tag, 0, i)
                    /\ Plain(O, C, xres.tag, i + Len(OpenTag(xres.tag)), j)
                    /\ Plain(O, C, xres.tag, j + Len(CloseTag(xres.tag)), Len(xtext))) =>
                       /\ xres.outcome = "return"
                       /\ IsStripOf(xres.content, Inner(xtext, xres.tag, i, j))

\* whitespace was stripped and a later closing delimiter ignored
C8_Witness ==
    /\ xres.fn = "parse_xml_content"
    /\ xres.tag = QuestionTag
    /\ xres.outcome = "return"
    /\ xres.content = <<"a">>
    /\ xtext = OpenTag(QuestionTag) \o <<" ", "a">> \o CloseTag(QuestionTag)
                   \o CloseTag(QuestionTag)

\* C9: parse_xml_content raises MissingTagError whenever <tag> occurs nowhere
\* (a lone </tag> or not), and TruncatedResponseError whenever <tag> occurs
\* and no </tag> occurs after the first <tag> (a </tag> before it or not).
C9_FailureFollowsDelimiters ==
    xres.fn = "parse_xml_content" =>
        LET O == Opens(xtext, xres.tag)
            C == Closes(xtext, xres.tag)
        IN  /\ O = {} => xres.outcome = "MissingTagError"
            /\ \A i \in O :
                   ((\A k \in O : i <= k) /\ After(C, xres.tag, i) = {}) =>
                       xres.outcome = "TruncatedResponseError"

\* a closing delimiter only before the opening one
C9_Witness ==
    /\ xres.fn = "parse_xml_content"
    /\ xres.tag = QuestionTag
    /\ xres.outcome = "TruncatedResponseError"
    /\ xtext = CloseTag(QuestionTag) \o OpenTag(QuestionTag) \o <<"a">>

DataTag(fn) == IF fn = "parse_onboard_response" THEN CanvasConfigTag ELSE StyleUpdateTag

\* C10: when the text holds a <question>...</question> block and a block of
\* the interpreter's data tag, in either order, the interpreter returns a
\* question carrying the inner text of the (first) question block, stripped.
C10_QuestionWins ==
    (/\ xres.fn \in {"parse_onboard_response", "parse_style_response"}
     /\ HasBlock(xtext, QuestionTag)
     /\ HasBlock(xtext, DataTag(xres.fn))) =>
        /\ xres.outcome = "return"
        /\ xres.type = "question"
        /\ \A b \in FirstBlocks(xtext, QuestionTag) :
               IsStripOf(xres.content, Inner(xtext, QuestionTag, b[1], b[2]))

\* the data block comes first; the question is not empty
C10_Witness ==
    /\ xres.fn = "parse_onboard_response"
    /\ xres.type = "question"
    /\ xres.content = <<"{", "}">>
    /\ xtext = OpenTag(CanvasConfigTag) \o CloseTag(CanvasConfigTag)
                   \o OpenTag(QuestionTag) \o <<"{", "}">> \o CloseTag(QuestionTag)

-----------------------------------------------------------------------------
(* Properties of the interpreters on JSON bodies (specification SpecJson) *)

Interpreters == {"parse_onboard_response", "parse_style_response"}

Interpret(fn, text) ==
    IF fn = "parse_onboard_response" THEN ParseOnboardResponse(text)
    ELSE ParseStyleResponse(text)

\* the text between the first <tag> and the first </tag> after it, stripped
FirstBody(s, tag) ==
    LET b == CHOOSE b \in FirstBlocks(s, tag) : TRUE
    IN  Strip(Inner(s, tag, b[1], b[2]))

\* the interpreter fn finds no <question> and a whole block of its data tag
DataBlockOnly(fn, s) ==
    /\ Opens(s, QuestionTag) = {}
    /\ FirstBlocks(s, DataTag(fn)) # {}

\* C11: when the text has no <question> and the body of its <canvas_config>
\* block is not valid JSON, parse_onboard_response raises MalformedXmlError,
\* the failure kind for malformed payloads, raised from the JSON decode
\* error, and returns no config.
C11_BadJsonIsMalformedPayload ==
    (/\ xres.fn = "parse_onboard_response"
     /\ DataBlockOnly(xres.fn, xtext)
     /\ JsonLoads(FirstBody(xtext, CanvasConfigTag)).raised # "") =>
        /\ xres.outcome = "MalformedXmlError"
        /\ xres.exc.cause = "JSONDecodeError"
        /\ xres.type # "config"

\* the failure situations of an interpreter on a text without <question>
Situation(fn, s) ==
    IF Opens(s, QuestionTag) # {} THEN "question"
    ELSE IF Opens(s, DataTag(fn)) = {} THEN "no recognized tag"
    ELSE IF FirstBlocks(s, DataTag(fn)) = {} THEN "missing closing tag"
    ELSE IF JsonLoads(FirstBody(s, DataTag(fn))).raised # "" THEN "body not JSON"
    ELSE "data"

FailureSituations == {"missing closing tag", "body not JSON", "no recognized tag"}

\* one text of each failure situation
Sample(fn, situation) ==
    IF situation = "missing closing tag" THEN OpenTag(DataTag(fn)) \o <<"{", "}">>
    ELSE IF situation = "body not JSON"
    THEN OpenTag(DataTag(fn)) \o <<"{">> \o CloseTag(DataTag(fn))
    ELSE <<"{", "}">>

\* C12: the kind of failure an interpreter reports in one of the situations
\* missing closing tag, body not valid JSON, no recognized tag is reported in
\* neither of the other two situations.
C12_FailureKindsDistinct ==
    (/\ xres.fn \in Interpreters
     /\ Situation(xres.fn, xtext) \in FailureSituations) =>
        \A other \in FailureSituations \ {Situation(xres.fn, xtext)} :
            Interpret(xres.fn, Sample(xres.fn, other)).raised # xres.outcome

\* C14: when the text has no <question> and the body of its <style_update>
\* block is a JSON object, parse_style_response returns an update whose keys
\* are among card_theme, canvas_theme, physics and explanation; each is
\* present exactly when the object has cardTheme, canvasTheme, physics,
\* explanation respectively, and carries that key's value.
C14_UpdateLiftsKnownKeys ==
    (/\ xres.fn = "parse_style_response"
     /\ DataBlockOnly(xres.fn, xtext)) =>
        LET j == JsonLoads(FirstBody(xtext, StyleUpdateTag))
        IN  (j.raised = "" /\ j.value.kind = "object") =>
                /\ xres.outcome = "return"
                /\ xres.type = "update"
                /\ DOMAIN xres.fields \subseteq
                       {"card_theme", "canvas_theme", "physics", "explanation"}
                /\ "card_theme" \in DOMAIN xres.fields <=> CardThemeKey \in DOMAIN j.value.v
                /\ "canvas_theme" \in DOMAIN xres.fields <=> CanvasThemeKey \in DOMAIN j.value.v
                /\ "physics" \in DOMAIN xres.fields <=> PhysicsKey \in DOMAIN j.value.v
                /\ "explanation" \in DOMAIN xres.fields <=> ExplanationKey \in DOMAIN j.value.v
                /\ CardThemeKey \in DOMAIN j.value.v =>
                       xres.fields["card_theme"] = j.value.v[CardThemeKey]
                /\ CanvasThemeKey \in DOMAIN j.value.v =>
                       xres.fields["canvas_theme"] = j.value.v[CanvasThemeKey]
                /\ PhysicsKey \in DOMAIN j.value.v =>
                       xres.fields["physics"] = j.value.v[PhysicsKey]
                /\ ExplanationKey \in DOMAIN j.value.v =>
                       xres.fields["explanation"] = j.value.v[ExplanationKey]

\* <style_update>{"physics":{"b":"c"},"x":12}</style_update>: physics is
\* kept with its value, the unknown key is dropped
C14_Witness ==
    /\ xres.fn = "parse_style_response"
    /\ xtext = Wrap("block", StyleUpdateTag,
                    Render(<<<<PhysicsKey, <<"{", "\"", "b", "\"", ":", "\"", "c", "\"", "}">>>>,
                             <<OtherKey, <<"1", "2">>>>>>, "compact"))
    /\ xres.outcome = "return"
    /\ xres.type = "update"
    /\ DOMAIN xres.fields = {"physics"}
    /\ xres.fields["physics"] = JsonObject([k \in {<<"b">>} |-> JsonString(<<"c">>)])

-----------------------------------------------------------------------------
(* Properties of the failures (specification SpecLong) *)

DataType(fn) == IF fn = "parse_onboard_response" THEN "config" ELSE "update"

\* shown is the first PreviewLimit characters of text, followed by "..." when
\* text has more
IsPreviewOf(shown, text) ==
    LET n == IF Len(text) > PreviewLimit THEN PreviewLimit ELSE Len(text)
    IN  /\ Len(shown) = IF Len(text) > PreviewLimit THEN n + 3 ELSE n
        /\ \A k \in 1..n : shown[k] = text[k]
        /\ \A k \in (n + 1)..Len(shown) : shown[k] = "."

\* C13: on a text with neither <question> nor the interpreter's data tag the
\* interpreter raises ValueError, the failure for a reply without a
\* recognized tag, and returns nothing; the message ends with the preview of
\* the text.  Every call of an interpreter ends as a question, as the
\* interpreter's data variant, or as a failure without a value.
C13_NoTagIsProtocolViolation ==
    xres.fn \in Interpreters =>
        /\ (Opens(xtext, QuestionTag) = {} /\ Opens(xtext, DataTag(xres.fn)) = {}) =>
               /\ xres.outcome = "ValueError"
               /\ xres.type = ""
               /\ xres.content = <<>> /\ xres.fields = <<>>
               /\ xres.exc.cause = ""
               /\ Len(xres.exc.message) >= 1
               /\ IsPreviewOf(Tail(xres.exc.message), xtext)
        /\ \/ xres.outcome = "return" /\ xres.type = "question"
           \/ xres.outcome = "return" /\ xres.type = DataType(xres.fn)
           \/ xres.outcome \notin {"return", ""} /\ xres.type = ""

\* a text of PreviewLimit + 1 letters: the failure shows PreviewLimit of them
C13_Witness ==
    /\ xres.fn = "parse_onboard_response"
    /\ xtext = Filler(PreviewLimit + 1)
    /\ xres.outcome = "ValueError"
    /\ Tail(xres.exc.message) = Filler(PreviewLimit) \o Ellipsis

\* C15: a failure raised on a text of more than PreviewLimit characters holds
\* the whole text neither in its message nor in a text attached to it, and a
\* text attached to it has at most PreviewLimit characters and an ellipsis.
C15_FailureHoldsPreviewOnly ==
    (/\ xres.outcome \notin {"return", ""}
     /\ Len(xtext) > PreviewLimit) =>
        /\ ~Contains(xres.exc.message, xtext)
        /\ \A text \in xres.exc.attached :
               /\ ~Contains(text, xtext)
               /\ Len(text) <= PreviewLimit + Len(Ellipsis)


-----------------------------------------------------------------------------
(* Properties of the wrapper and the handlers (specification SpecHttp) *)

\* the upstream call of request r failed
UpstreamFailed(r) == req[r].upstream \in UpstreamFailures

\* request r ended in the wrapper, with no result
NoResultOf(r) ==
    /\ req[r].outcome.raised # ""
    /\ req[r].outcome.text = NoText
    /\ req[r].outcome.images = <<>>
    /\ req[r].outcome.model = ""

\* a file of the call does not decode
BadFile(args) == \E i \in 1..Len(args.files) : B64Decode(args.files[i].data).raised # ""

(* C16 as stated: every wrapper operation that ran to its end issued exactly
   one upstream call, and when that call failed the caller got the same
   failure and no result. *)
C16_ExactlyOneCall ==
    \A r \in Reqs :
        req[r].at = "done" /\ req[r].op \in WrapperOps =>
            /\ Len(req[r].sent) = 1
            /\ UpstreamFailed(r) => req[r].outcome.raised = req[r].upstream /\ NoResultOf(r)

(* C16 as the code has it: a wrapper operation issues at most one upstream
   call; a finished operation issued none exactly when it is multimedia_query
   and one of its files failed to base64-decode, which raises that error
   before any call; when the call failed the caller got the same failure,
   and no result. *)
C16_AtMostOneCallFailurePropagates ==
    \A r \in Reqs :
        req[r].op \in WrapperOps =>
            /\ Len(req[r].sent) <= 1
            /\ req[r].at = "done" =>
                   /\ Len(req[r].sent) = 0 <=>
                          req[r].op = "multimedia_query" /\ BadFile(req[r].args)
                   /\ Len(req[r].sent) = 0 =>
                          req[r].outcome.raised = "binascii.Error" /\ req[r].upstream = ""
                   /\ UpstreamFailed(r) =>
                          req[r].outcome.raised = req[r].upstream /\ NoResultOf(r)

C16_Witness ==
    \E r \in Reqs :
        /\ req[r].at = "done"
        /\ req[r].caller = "direct"
        /\ req[r].op = "multimedia_query"
        /\ req[r].upstream = "ServerError"
        /\ req[r].outcome.raised = "ServerError"
        /\ Len(req[r].sent) = 1

\* `"not initialized" in detail`
MentionsNotInitialized(detail) ==
    \E i \in 1..Len(detail) : detail[i] = "Gemini service not initialized"

(* C17: with no service, a finished request to a chat, media or image route
   was answered 503 with a detail saying "not initialized" and made no
   upstream call. *)
C17_NoServiceIs503 ==
    \A r \in Reqs :
        /\ service = None
        /\ req[r].at = "done"
        /\ req[r].caller \in ChatRoutes \cup MediaRoutes \cup ImageRoutes
        => /\ req[r].response.status = 503
           /\ MentionsNotInitialized(req[r].response.detail)
           /\ req[r].sent = <<>>

(* C18: with a service, a finished request to /api/image/generate reached
   the wrapper's generate_image (one upstream call), and when that call
   returned at least one image the answer is 200 with the wrapper's images
   and model. *)
C18_ImageGenerateAnswers ==
    \A r \in Reqs :
        /\ service # None
        /\ req[r].at = "done"
        /\ req[r].caller = "/api/image/generate"
        => /\ req[r].op = "generate_image"
           /\ Len(req[r].sent) = 1
           /\ req[r].upstream = "returned" /\ req[r].outcome.images # <<>> =>
                  /\ req[r].response.status = 200
                  /\ req[r].response.images = req[r].outcome.images
                  /\ req[r].response.model = req[r].outcome.model

(* C19 as stated: a request of any handler whose upstream call failed was
   answered 503. *)
C19_UpstreamFailureIs503 ==
    \A r \in Reqs :
        req[r].at = "done" /\ req[r].caller \in Routes /\ UpstreamFailed(r) =>
            req[r].response.status = 503

(* C19 as the code has it: a request whose upstream call failed was answered
   503 by onboard and style, and 500 by chat query, chat completions, image
   generate, image edit and media query. *)
C19_UpstreamFailureIs503Or500 ==
    \A r \in Reqs :
        req[r].at = "done" /\ req[r].caller \in Routes /\ UpstreamFailed(r) =>
            /\ req[r].caller \in SessionRoutes => req[r].response.status = 503
            /\ req[r].caller \in ChatRoutes \cup ImageRoutes \cup MediaRoutes =>
                   req[r].response.status = 500

C19_Witness ==
    \E r \in Reqs :
        /\ req[r].at = "done"
        /\ req[r].caller = "/api/chat/query"
        /\ req[r].upstream = "TimeoutError"
        /\ req[r].response.status = 500

\* the model the claim names for a multimedia_query with these arguments
MediaModel(args) ==
    IF \E i \in 1..Len(args.response_modalities) : args.response_modalities[i] = "IMAGE"
    THEN "gemini-2.5-flash-image"
    ELSE IF args.model \notin {None, ""} THEN args.model
    ELSE DefaultModel

(* C20: generate_image and edit_image send the fixed image model whatever
   the caller passed and report it; multimedia_query sends and reports the
   fixed image model when IMAGE is among the requested modalities, otherwise
   the caller's model if one is given (not None, not empty), otherwise the
   service default. *)
C20_ModelSelection ==
    \A r \in Reqs :
        req[r].op \in {"generate_image", "edit_image", "multimedia_query"}
            /\ req[r].sent # <<>> =>
            LET named == IF req[r].op = "multimedia_query" THEN MediaModel(req[r].args)
                         ELSE "gemini-2.5-flash-image"
            IN  /\ req[r].sent[1].model = named
                /\ req[r].upstream = "returned" => req[r].outcome.model = named

C20_Witness ==
    \E r \in Reqs :
        /\ req[r].at = "done"
        /\ req[r].op = "multimedia_query"
        /\ Len(req[r].args.files) = 2
        /\ req[r].args.response_modalities = <<"TEXT">>
        /\ req[r].args.model = "gemini-2.5-flash"
        /\ req[r].outcome.model = "gemini-2.5-flash"

-----------------------------------------------------------------------------
(* Properties of MIME sniffing (specification SpecSniff) *)

StartsWith(data, sig) == Len(data) >= Len(sig) /\ SubSeq(data, 1, Len(sig)) = sig

\* the type the rules name for data, in their priority order
SniffRule(data) ==
    IF StartsWith(data, PngSignature) THEN "image/png"
    ELSE IF StartsWith(data, JpegSoi) THEN "image/jpeg"
    ELSE IF StartsWith(data, Riff) /\ Len(data) >= 12 /\ SubSeq(data, 9, 12) = Webp
    THEN "image/webp"
    ELSE IF StartsWith(data, Gif87a) \/ StartsWith(data, Gif89a) THEN "image/gif"
    ELSE "image/png"

(* C21: for every byte sequence the sniffed type is the one the rules name
   (PNG signature, else JPEG SOI, else RIFF with WEBP at bytes 8 to 11, else
   GIF87a / GIF89a, else image/png), and the call returns. *)
C21_SniffFollowsRules ==
    xres.fn = "_detect_image_mime_type" =>
        /\ xres.outcome = "return"
        /\ xres.type = SniffRule(xtext)

-----------------------------------------------------------------------------
(* Properties of the wrapper's requests and results (specification SpecHttp) *)

(* C22: the request of a chat call holds one turn per message, in the order
   of the messages, each with the message's content as its only part;
   assistant is sent as model and user as user. *)
C22_ChatTurnsOneToOne ==
    \A r \in Reqs :
        req[r].op = "chat" /\ req[r].sent # <<>> =>
            LET turns == req[r].sent[1].contents
                messages == req[r].args.messages
            IN  /\ Len(turns) = Len(messages)
                /\ \A i \in 1..Len(messages) :
                       /\ turns[i].parts = <<messages[i].content>>
                       /\ messages[i].role = "assistant" => turns[i].role = "model"
                       /\ messages[i].role = "user" => turns[i].role = "user"

C22_Witness ==
    \E r \in Reqs :
        /\ req[r].op = "chat"
        /\ Len(req[r].sent) = 1
        /\ Len(req[r].args.messages) = 3
        /\ req[r].args.messages[2].role = "assistant"
        /\ req[r].sent[1].contents[2].role = "model"
        /\ req[r].sent[1].contents[3].role = "user"

\* the positions <<candidate, part>> of a response, and the order of the walk
Positions(response) ==
    {<<c, p>> : c \in 1..Len(response.candidates), p \in 1..3} \cap
        {pos \in (1..Len(response.candidates)) \X (1..3) :
             pos[2] <= Len(response.candidates[pos[1]])}

NotAfter(q, pos) == q[1] < pos[1] \/ (q[1] = pos[1] /\ q[2] <= pos[2])

PartAt(response, pos) == response.candidates[pos[1]][pos[2]]

DataPositions(response) ==
    {pos \in Positions(response) : PartAt(response, pos).data # <<>>}

TextPositions(response) ==
    {pos \in Positions(response) : PartAt(response, pos).text \notin {NoText, <<>>}}

ImageOps == {"generate_image", "edit_image", "multimedia_query"}

(* C25: for generate_image, edit_image and multimedia_query the images of
   the result are the parts with inline data, one each, in the order of the
   walk (candidates in order, parts in order), each the base64 of the part's
   bytes (decoding back to them) with the type sniffed from the bytes; the
   text is that of the last part with text in the walk, absent when there is
   none.  Nothing of this depends on the operation. *)
C25_ImagesAndTextFollowTheWalk ==
    \A r \in Reqs :
        req[r].op \in ImageOps /\ req[r].upstream = "returned" =>
            LET data == DataPositions(req[r].reply)
                texts == TextPositions(req[r].reply)
                images == req[r].outcome.images
            IN  /\ Len(images) = Cardinality(data)
                /\ \A pos \in data :
                       LET k == Cardinality({q \in data : NotAfter(q, pos)})
                           bytes == PartAt(req[r].reply, pos).data
                       IN  /\ B64Decode(images[k].data) = [raised |-> "", data |-> bytes]
                           /\ images[k].mime_type = DetectImageMimeType(bytes)
                /\ texts = {} => req[r].outcome.text = NoText
                /\ \A pos \in texts :
                       (\A q \in texts : NotAfter(q, pos)) =>
                           req[r].outcome.text = PartAt(req[r].reply, pos).text

C25_Witness ==
    \E r \in Reqs :
        /\ req[r].op = "edit_image"
        /\ req[r].upstream = "returned"
        /\ Len(req[r].reply.candidates) = 2
        /\ Len(req[r].outcome.images) = 2
        /\ req[r].outcome.images[1].mime_type = "image/jpeg"
        /\ req[r].outcome.images[2].mime_type = "image/png"
        /\ req[r].outcome.text = <<"y", "o">>

\* the failures the interpreters document: XmlParseError's subclasses and
\* ValueError
DocumentedFailures ==
    {"MissingTagError", "MalformedXmlError", "TruncatedResponseError", "XmlParseError",
     "ValueError"}

\* C29: for every text, parse_onboard_response and parse_style_response
\* return a result or raise one of their documented failures (a subclass of
\* XmlParseError, or ValueError), also when the body of <style_update> is
\* valid JSON that is not an object.
C29_OnlyDocumentedFailures ==
    xres.fn \in Interpreters =>
        xres.outcome \in {"return"} \cup DocumentedFailures

-----------------------------------------------------------------------------
(* Properties of expiry (specification Spec) *)

(* C28: sessions leave the store through cleanup_expired only.  A session
   idle for longer than the TTL and not yet swept is returned by
   get_or_create(id) under the same id with its whole history, and an
   add_message to it appends; both calls set last_accessed to now, so
   cleanup_expired run right afterwards does not remove it. *)
C28_ExpiryOnlyThroughCleanup ==
    [][/\ ret'.op # "cleanup_expired" => DOMAIN sessions \subseteq DOMAIN sessions'
       /\ (/\ ret'.op \in {"get_or_create", "add_message"}
           /\ ret'.sid \in Expired(sessions, now)) =>
              /\ ret'.sid \in DOMAIN sessions'
              /\ ValueNext[ret'.sid].last_accessed = now'
              /\ ret'.sid \in DOMAIN CleanupOp(sessions', now').S
              /\ ret'.op = "get_or_create" =>
                     /\ ret'.id = ret'.sid
                     /\ ret'.history = Value[ret'.sid].messages
                     /\ ValueNext[ret'.sid].messages = Value[ret'.sid].messages
              /\ ret'.op = "add_message" =>
                     ValueNext[ret'.sid].messages =
                         Append(Value[ret'.sid].messages, Message(ret'.role, ret'.content))
      ]_vars

\* a session that had been idle for longer than the TTL was returned with
\* its one message
C28_Witness ==
    /\ ret.op = "get_or_create"
    /\ ret.idle > TtlMinutes
    /\ ret.id = ret.sid
    /\ Len(ret.history) = 1
    /\ ret.sid \in DOMAIN sessions

-----------------------------------------------------------------------------
(* Properties of the onboard and style handlers (specifications SpecApp,
   SpecSweep) *)

\* the request r takes this step
Stepped(r) == req'[r] # req[r]

\* r is between its two appends
BetweenAppends(r) == req[r].at \in {"add_assistant", "wait_add_assistant", "in_add_assistant"}

(* C23: the steps of one onboard / style request come in this order: the
   history is fetched from the store, one upstream call is made with it, the
   reply is interpreted, the user message and then the assistant message are
   appended, the response is given.  Messages are appended only after the
   interpretation succeeded: a request whose upstream call fails or whose
   reply cannot be interpreted ends without an append, and a request that
   succeeds has appended exactly two messages to its session, the user's
   first and the assistant's right after it. *)
C23_HandlerOrder ==
    [][/\ \A r \in Reqs :
              /\ (Stepped(r) /\ req'[r].at = "awaiting") =>
                     /\ req[r].at = "in_get_or_create"
                     /\ Len(req'[r].sent) = 1
                     /\ req'[r].args.prompt.conversation_history =
                            ValueNext[req'[r].session_id].messages
              /\ (Stepped(r) /\ req'[r].at = "add_user") =>
                     /\ req[r].at = "awaiting"
                     /\ req'[r].upstream = "returned"
                     /\ req'[r].parsed = Interpreted(req[r].caller, req'[r].outcome.text)
                     /\ req'[r].parsed.raised = ""
              /\ (req[r].at = "awaiting" /\ req'[r].at = "done") =>
                     /\ req'[r].response.status # 200
                     /\ \/ req'[r].upstream # "returned"
                        \/ Interpreted(req[r].caller, req'[r].outcome.text).raised # ""
              /\ (Stepped(r) /\ req[r].at = "in_add_user") =>
                     /\ req'[r].at = "add_assistant"
                     /\ ValueNext[req[r].session_id].messages =
                            Append(Value[req[r].session_id].messages,
                                   Message("user", req[r].message))
              /\ (Stepped(r) /\ req[r].at = "in_add_assistant") =>
                     /\ req'[r].at = "done"
                     /\ req'[r].response.status = 200
                     /\ Len(Value[req[r].session_id].messages) = req[r].user_at
                     /\ ValueNext[req[r].session_id].messages =
                            Append(Value[req[r].session_id].messages,
                                   Message("assistant",
                                           AssistantContent(req[r].caller, req[r].parsed)))
              /\ (Stepped(r) /\ req'[r].response.status = 200) =>
                     req[r].at = "in_add_assistant"
       /\ \A x \in DOMAIN sessions :
              (x \in DOMAIN sessions' /\ ValueNext[x].messages # Value[x].messages) =>
                  \E r \in Reqs : /\ Stepped(r)
                                  /\ req[r].at \in {"in_add_user", "in_add_assistant"}
                                  /\ req[r].session_id = x
       /\ \A x \in DOMAIN sessions' \ DOMAIN sessions : ValueNext[x].messages = <<>>
      ]_vars

\* one request succeeded and left its two messages, another could not be
\* interpreted and left its session empty
C23_Witness ==
    \E r, q \in Reqs :
        /\ req[r].at = "done" /\ req[r].response.status = 200
        /\ req[r].user_at = 1
        /\ Len(Value[req[r].session_id].messages) = 2
        /\ req[q].at = "done" /\ req[q].upstream = "returned"
        /\ req[q].response.status = 503
        /\ req[q].session_id \in DOMAIN sessions
        /\ Value[req[q].session_id].messages = <<>>

(* C24: the lock is held only by a coroutine that is running the body of a
   store operation; whenever no coroutine runs (every request in progress
   is suspended, awaiting its upstream call) the lock is free; a request
   awaiting the upstream call does not hold it; and no request is ever
   suspended waiting for the lock. *)
C24_LockNeverHeldWhileSuspended ==
    /\ locked => \E r \in Reqs : req[r].at \in Bodies3
    /\ (\A r \in Reqs : ~Running(r)) => ~locked
    /\ \A r \in Reqs : req[r].at = "awaiting" =>
           (locked => \E q \in Reqs \ {r} : req[q].at \in Bodies3)
    /\ \A r \in Reqs : req[r].at \notin WaitingAt

\* the body of a store operation of one request runs, the lock taken, while
\* another request awaits its upstream call
C24_Witness ==
    \E r, q \in Reqs :
        /\ req[r].at = "awaiting"
        /\ req[q].at = "in_add_user"
        /\ req[q].session_id = req[r].session_id
        /\ locked

\* user, assistant, user, assistant, ...
Alternating(h) ==
    \A i \in 1..Len(h) : h[i].role = IF i % 2 = 1 THEN "user" ELSE "assistant"

(* C26: whatever the interleaving of the requests, every session history is
   an alternation user, assistant, ... starting with a user message; it has
   odd length exactly when a request is between its two appends on it, the
   last message then being that request's user message; and the two
   messages of a finished request are next to each other. *)
C26_AppendsAdjacent ==
    /\ \A x \in DOMAIN sessions :
           /\ Alternating(Value[x].messages)
           /\ Len(Value[x].messages) % 2 = 1 <=>
                  \E r \in Reqs : BetweenAppends(r) /\ req[r].session_id = x
    /\ \A r \in Reqs :
           /\ BetweenAppends(r) =>
                  /\ Len(Value[req[r].session_id].messages) = req[r].user_at
                  /\ Value[req[r].session_id].messages[req[r].user_at] =
                         Message("user", req[r].message)
           /\ (req[r].at = "done" /\ req[r].response.status = 200) =>
                  /\ Value[req[r].session_id].messages[req[r].user_at] =
                         Message("user", req[r].message)
                  /\ Value[req[r].session_id].messages[req[r].user_at + 1] =
                         Message("assistant", AssistantContent(req[r].caller, req[r].parsed))

\* two requests on one session were in progress together; one has both its
\* messages in, the other is between its appends
C26_Witness ==
    \E r, q \in Reqs :
        /\ req[r].at = "done" /\ req[r].response.status = 200
        /\ req[q].session_id = req[r].session_id
        /\ req[q].at = "add_assistant"
        /\ req[q].args.prompt.conversation_history = <<>>
        /\ req[r].args.prompt.conversation_history = <<>>
        /\ req[q].user_at = 3

(* C27: when the session of a request is gone at its add_message calls
   (cleanup_expired removed it while the request awaited the upstream
   call), the appends change nothing in the store, the session is not
   created again, and the request ends with status 200 carrying that
   session's id; a later request presenting that id gets a new, different
   id, one never issued before, with an empty history. *)
C27_SweptSessionDropsMessages ==
    [][\A r \in Reqs :
           /\ (Stepped(r) /\ req[r].at \in {"in_add_user", "in_add_assistant"}
                          /\ req[r].session_id \notin DOMAIN sessions) =>
                  /\ sessions' = sessions /\ lists' = lists /\ dicts' = dicts
                  /\ req[r].at = "in_add_assistant" =>
                         /\ req'[r].at = "done"
                         /\ req'[r].response.status = 200
                         /\ req'[r].response.session_id = req[r].session_id
           /\ (Stepped(r) /\ req[r].at = "in_get_or_create"
                          /\ req[r].presented \in 1..issued
                          /\ req[r].presented \notin DOMAIN sessions) =>
                  /\ req'[r].session_id # req[r].presented
                  /\ req'[r].session_id \notin 1..issued
                  /\ req'[r].args.prompt.conversation_history = <<>>
                  /\ ValueNext[req'[r].session_id].messages = <<>>
                  /\ req[r].presented \notin DOMAIN sessions'
      ]_vars

\* a request ended with status 200 on a session removed during its upstream
\* call, both its messages dropped; the next request presented that id and
\* got another one
C27_Witness ==
    \E r, q \in Reqs :
        /\ req[r].at = "done" /\ req[r].response.status = 200
        /\ req[r].user_at = 0
        /\ req[r].response.session_id \notin DOMAIN sessions
        /\ req[q].presented = req[r].response.session_id
        /\ req[q].at = "awaiting"
        /\ req[q].session_id # req[q].presented
        /\ Value[req[q].session_id].messages = <<>>

(* C30, as claimed: in the running application the set of session ids only
   grows, and every onboard / style request that presents no id or an
   unknown id adds one session, which stays: every such request that has
   ended, failed ones included, has its own session in the store. *)
C30_EveryRequestAddsASession ==
    [][/\ DOMAIN sessions \subseteq DOMAIN sessions'
       /\ \A r \in Reqs :
              (req'[r].at = "done" /\ req'[r].caller \in SessionRoutes) =>
                  /\ req'[r].session_id \in DOMAIN sessions'
                  /\ ~Known(sessions, req'[r].presented) =>
                         req'[r].session_id # req'[r].presented
      ]_vars

(* C30, amended: in the running application the set of session ids only
   grows; every onboard / style request that presents no id or an unknown
   id while the model service is initialised adds one session, new and
   empty, at its get_or_create, and that session stays: every such request
   that has ended, failed ones included, has its session in the store. *)
C30_SessionsOnlyGrow ==
    [][/\ DOMAIN sessions \subseteq DOMAIN sessions'
       /\ SessionCount(sessions') >= SessionCount(sessions)
       /\ \A r \in Reqs :
              /\ (Stepped(r) /\ req[r].at = "in_get_or_create"
                             /\ ~Known(sessions, req[r].presented)) =>
                     /\ req'[r].session_id \notin DOMAIN sessions
                     /\ DOMAIN sessions' = DOMAIN sessions \cup {req'[r].session_id}
                     /\ ValueNext[req'[r].session_id].messages = <<>>
              /\ (service # None /\ req'[r].at = "done"
                                 /\ req'[r].caller \in SessionRoutes) =>
                     req'[r].session_id \in DOMAIN sessions'
      ]_vars

\* a request that failed in the upstream call left an empty session behind,
\* still there after the TTL
C30_Witness ==
    \E r \in Reqs :
        /\ req[r].at = "done"
        /\ req[r].failure = "ServerError"
        /\ req[r].presented = UnknownId
        /\ req[r].session_id \in DOMAIN sessions
        /\ Value[req[r].session_id].messages = <<>>
        /\ now - sessions[req[r].session_id].last_accessed > TtlMinutes

====
